---- MODULE Spec2Model ----
\* Verification model of the crawlers of anlaki-py/web-crawler.
\*
\* The repository holds several independent crawler programs.  Each one is
\* modelled by its own group of variables, its own initial predicate, its own
\* next-state relation and its own specification:
\*
\*   SpecModern   src/crawler.py                  ModernWebCrawler (asyncio, batches)
\*   SpecPool     src/.other/pro0/pro_crawler_A.py  WebCrawler (thread pool)
\*   SpecCore     src/.other/pro1/web_crawler/crawler/core.py  WebCrawler (asyncio, recursive tasks)
\*   SpecSeq      src/crawler2.py and src/src/crawler.py  the sequential WebCrawlers
\*
\* While one program runs, the variables of the others stay at their "off"
\* values.
EXTENDS Integers, Sequences, FiniteSets, TLC

\* ---------------------------------------------------------------- state

\* ModernWebCrawler (src/crawler.py)
VARIABLES m_pc, m_helpers, m_max_depth, m_max_pages, m_concurrent_requests,
          m_visited_urls, m_url_queue, m_tasks, m_db, m_fetches, m_dupLinks
\* m_helpers: the methods extract_meta_description and extract_links, which
\* get_page_content calls and src/crawler.py does not define, are provided (by
\* the page parser); without them building PageData raises AttributeError.

modernVars == <<m_pc, m_helpers, m_max_depth, m_max_pages, m_concurrent_requests,
                m_visited_urls, m_url_queue, m_tasks, m_db, m_fetches, m_dupLinks>>

\* WebCrawler of pro_crawler_A.py (thread pool)
VARIABLES p_main, p_threads, p_max_depth, p_chunk_size,
          p_visited_urls, p_queue, p_work, p_workers,
          p_current_chunk, p_chunk_counter, p_total_pages, p_files, p_fetches, p_appended

poolVars == <<p_main, p_threads, p_max_depth, p_chunk_size,
              p_visited_urls, p_queue, p_work, p_workers,
              p_current_chunk, p_chunk_counter, p_total_pages, p_files, p_fetches,
              p_appended>>

\* WebCrawler of core.py (config-driven, asyncio)
VARIABLES c_pc, c_base_urls, c_idx, c_max_depth, c_max_pages, c_chunk_size,
          c_visited_urls, c_tasks, c_current_chunk, c_chunk_counter, c_total_pages,
          c_files, c_fetches, c_asScenario,
          c_concurrency, c_respect_robots, c_robots, c_robots_parsers,
          c_clock, c_last_start, c_min_gap
\* c_asScenario: every fetch so far succeeded and its page carried the hrefs
\* of CScenarioWeb.
\* c_robots: per domain, what its robots.txt delivers ("norules": missing or
\* empty; "rules": the lines of CRobotsTxt).
\* c_clock: the time; c_last_start: per domain, when the latest fetch was
\* sent; c_min_gap: per domain, the smallest time between two consecutive
\* fetches sent to it.

coreVars == <<c_pc, c_base_urls, c_idx, c_max_depth, c_max_pages, c_chunk_size,
              c_visited_urls, c_tasks, c_current_chunk, c_chunk_counter, c_total_pages,
              c_files, c_fetches, c_asScenario,
              c_concurrency, c_respect_robots, c_robots, c_robots_parsers,
              c_clock, c_last_start, c_min_gap>>

\* The sequential WebCrawlers of crawler2.py and of src/src/crawler.py
VARIABLES s_variant, s_pc, s_chunk_size, s_max_depth, s_max_pages,
          s_visited_urls, s_urls_to_visit, s_stack, s_current_chunk, s_chunk_counter,
          s_total_pages, s_files, s_emitted

seqVars == <<s_variant, s_pc, s_chunk_size, s_max_depth, s_max_pages,
             s_visited_urls, s_urls_to_visit, s_stack, s_current_chunk, s_chunk_counter,
             s_total_pages, s_files, s_emitted>>

\* RateLimiter of src/crawler.py and the tasks that call acquire()
VARIABLES r_delay, r_clock, r_last_request, r_locked, r_waiters, r_callers,
          r_last_return, r_min_gap

limiterVars == <<r_delay, r_clock, r_last_request, r_locked, r_waiters, r_callers,
                 r_last_return, r_min_gap>>

\* AsyncWebCrawler of src/web_crawler2.py
VARIABLES a_pc, a_max_concurrent, a_visited_urls, a_urls_to_visit, a_tasks, a_sem, a_sem_waiters, a_pages, a_fetches

asyncVars == <<a_pc, a_max_concurrent, a_visited_urls, a_urls_to_visit, a_tasks, a_sem, a_sem_waiters, a_pages, a_fetches>>

\* The site ModernWebCrawler crawls ("any": every page can carry any links)
\* and the record of its dequeues: the depth of the last dequeued entry, and
\* whether a dequeued depth was ever below the one before.
VARIABLES m_site, m_last_depth, m_decreased

orderVars == <<m_site, m_last_depth, m_decreased>>

\* retry_attempts of the config-driven crawler, and the URLs handed to Reporting.register_error
VARIABLES c_retry_attempts, c_errors

retryVars == <<c_retry_attempts, c_errors>>

\* One call of a function of the crawlers: the function, the position of the
\* call, its arguments and its result.
VARIABLES f_fn, f_pc, f_args, f_result

callVars == <<f_fn, f_pc, f_args, f_result>>

\* What the sequential crawlers have seen of the site: the links extracted
\* from each fetched page, as pairs <<page, link>>, and whether a fetch has failed.
VARIABLES s_page_links, s_fetch_failed

linkVars == <<s_page_links, s_fetch_failed>>

\* GitHubAPICrawler.get_api_content (src/github_docs_crawler.py): where the call
\* stands, rate_limit_remaining, the requests sent for the path and the pauses
\* of check_rate_limit (both counted up to a bound), and the value returned.
VARIABLES g_pc, g_rate_limit_remaining, g_requests, g_pauses, g_result

gitVars == <<g_pc, g_rate_limit_remaining, g_requests, g_pauses, g_result>>

\* The page records of core.py: the list object that each record has in its
\* `links` field (pairs <<url, list>>), the list extract_links returned for the
\* page, the task that built the record, and the records as they were written
\* to chunk files.
VARIABLES c_links_of, c_extracted, c_page_task, c_written

pageVars == <<c_links_of, c_extracted, c_page_task, c_written>>

vars == <<modernVars, poolVars, coreVars, seqVars, limiterVars, asyncVars, orderVars, retryVars, callVars, linkVars, gitVars, pageVars>>

\* What a step of one program leaves unchanged: the variables of the others.
notModern == <<poolVars, coreVars, seqVars, limiterVars, asyncVars, orderVars, retryVars, callVars, linkVars, gitVars, pageVars>>
notPool == <<modernVars, coreVars, seqVars, limiterVars, asyncVars, orderVars, retryVars, callVars, linkVars, gitVars, pageVars>>
notCore == <<modernVars, poolVars, seqVars, limiterVars, asyncVars, orderVars, retryVars, callVars, linkVars, gitVars, pageVars>>
notSeq == <<modernVars, poolVars, coreVars, limiterVars, asyncVars, orderVars, retryVars, callVars, linkVars, gitVars, pageVars>>
notLimiter == <<modernVars, poolVars, coreVars, seqVars, asyncVars, orderVars, retryVars, callVars, linkVars, gitVars, pageVars>>
notAsync == <<modernVars, poolVars, coreVars, seqVars, limiterVars, orderVars, retryVars, callVars, linkVars, gitVars, pageVars>>
notModernOrder == <<poolVars, coreVars, seqVars, limiterVars, asyncVars, retryVars, callVars, linkVars, gitVars, pageVars>>
notCoreRetry == <<modernVars, poolVars, seqVars, limiterVars, asyncVars, orderVars, callVars, linkVars, gitVars, pageVars>>
notCall == <<modernVars, poolVars, coreVars, seqVars, limiterVars, asyncVars, orderVars, retryVars, linkVars, gitVars, pageVars>>
notSeqLink == <<modernVars, poolVars, coreVars, limiterVars, asyncVars, orderVars, retryVars, callVars, gitVars, pageVars>>
notGit == <<modernVars, poolVars, coreVars, seqVars, limiterVars, asyncVars, orderVars, retryVars, callVars, linkVars, pageVars>>
notCorePage == <<modernVars, poolVars, seqVars, limiterVars, asyncVars, orderVars, retryVars, callVars, linkVars, gitVars>>

\* ---------------------------------------------------------------- bounds

\* Longest list of links one page carries.
MaxLinks == 2
\* Largest max_depth a run of ModernWebCrawler is configured with.
MaxDepthCfg == 2
\* Largest max_depth a run of the thread-pool crawler is configured with.
PMaxDepthCfg == 1
\* Largest max_pages a run is configured with.
MaxPagesCfg == 3
\* Largest number of concurrent tasks / worker threads a run is configured with.
MaxConcurrency == 2
\* Largest max_depth a run of the config-driven crawler is configured with.
CMaxDepthCfg == 2
\* Largest max_pages a run of the config-driven crawler is configured with.
CMaxPagesCfg == 2
\* Longest list of hrefs a page of the config-driven crawler carries.
CMaxLinks == 2
\* Largest max_depth a run of the recursive crawler is configured with.
SMaxDepthCfg == 2
\* Largest max_pages crawl of crawler2.py is called with.
SMaxPagesCfg == 2
\* Longest list of links a page of the sequential crawlers carries.
SMaxLinks == 2
\* Largest chunk_size a run is configured with.
MaxChunkSize == 2

\* ---------------------------------------------------------------- helpers


SeqsUpTo(S, n) == UNION {[1..k -> S] : k \in 0..n}

NoHash == "none"

\* The content digests pages can have (compute_content_hash's values).
Hashes == {"h1", "h2", "h3"}




\* ================================================================
\* ModernWebCrawler, src/crawler.py
\* ================================================================

\* The URLs of the crawled site; "S" is base_url.
MUrls == {"S", "A", "B"}

m_base_url == "S"

\* The link lists a page can carry (what extract_links would return).
MLinkLists == SeqsUpTo(MUrls, MaxLinks)


\* A site of six pages: S links to A, B and C, A to D, C and D to E.
MTreeUrls == {"S", "A", "B", "C", "D", "E"}

MTreeWeb == [u \in MTreeUrls |->
    CASE u = "S" -> <<"A", "B", "C">>
      [] u = "A" -> <<"D">>
      [] u = "C" -> <<"E">>
      [] u = "D" -> <<"E">>
      [] OTHER -> <<>>]

\* On that site every page has its own content.
MTreeHash == [u \in MTreeUrls |-> "h" \o u]

\* The link lists the page parser can return for the page of url.
MPageLinks(site, url) == IF site = "any" THEN MLinkLists ELSE {MTreeWeb[url]}

\* The digests the page of url can have.
MPageHashes(site, url) == IF site = "any" THEN Hashes ELSE {MTreeHash[url]}

\* ModernWebCrawler.__init__: empty visited set, empty queue, a page store
\* with no rows of this run.
MInit ==
    /\ m_pc = "init"
    /\ m_helpers \in BOOLEAN
    /\ m_max_depth \in 0..MaxDepthCfg
    /\ m_max_pages \in 1..MaxPagesCfg
    /\ m_concurrent_requests \in 1..MaxConcurrency
    /\ m_visited_urls = {}
    /\ m_url_queue = <<>>
    /\ m_tasks = <<>>
    /\ m_db = [u \in MUrls |-> NoHash]
    /\ m_fetches = [u \in MUrls |-> 0]
    /\ m_dupLinks = {}
    \* the thread-pool crawler is not running
    /\ p_main = "off"
    /\ p_threads = 0
    /\ p_max_depth = 0
    /\ p_chunk_size = 0
    /\ p_visited_urls = {}
    /\ p_queue = <<>>
    /\ p_work = <<>>
    /\ p_workers = <<>>
    /\ p_current_chunk = <<>>
    /\ p_chunk_counter = 0
    /\ p_total_pages = 0
    /\ p_files = <<>>
    /\ p_fetches = <<>>
    /\ p_appended = <<>>
    \* the config-driven crawler is not running
    /\ c_pc = "off"
    /\ c_base_urls = <<>>
    /\ c_idx = 0
    /\ c_max_depth = 0
    /\ c_max_pages = 0
    /\ c_chunk_size = 0
    /\ c_visited_urls = {}
    /\ c_tasks = <<>>
    /\ c_current_chunk = <<>>
    /\ c_chunk_counter = 0
    /\ c_total_pages = 0
    /\ c_files = <<>>
    /\ c_fetches = <<>>
    /\ c_asScenario = FALSE
    /\ c_concurrency = 0
    /\ c_respect_robots = FALSE
    /\ c_robots = <<>>
    /\ c_robots_parsers = {}
    /\ c_clock = 0
    /\ c_last_start = <<>>
    /\ c_min_gap = <<>>
    \* the sequential crawlers are not running
    /\ s_variant = "off"
    /\ s_pc = "off"
    /\ s_chunk_size = 0
    /\ s_max_depth = 0
    /\ s_max_pages = 0
    /\ s_visited_urls = {}
    /\ s_urls_to_visit = <<>>
    /\ s_stack = <<>>
    /\ s_current_chunk = <<>>
    /\ s_chunk_counter = 0
    /\ s_total_pages = 0
    /\ s_files = <<>>
    /\ s_emitted = <<>>
    \* the RateLimiter is not in use
    /\ r_delay = 0
    /\ r_clock = 0
    /\ r_last_request = 0
    /\ r_locked = FALSE
    /\ r_waiters = <<>>
    /\ r_callers = <<>>
    /\ r_last_return = 0
    /\ r_min_gap = 0
    \* AsyncWebCrawler is not running
    /\ a_pc = "off"
    /\ a_max_concurrent = 0
    /\ a_visited_urls = {}
    /\ a_urls_to_visit = <<>>
    /\ a_tasks = <<>>
    /\ a_sem = 0
    /\ a_sem_waiters = <<>>
    /\ a_pages = <<>>
    /\ a_fetches = <<>>
    \* any site for ModernWebCrawler, no dequeue recorded
    /\ m_site = "any"
    /\ m_last_depth = -1
    /\ m_decreased = FALSE
    \* no retries configured, no error registered
    /\ c_retry_attempts = 0
    /\ c_errors = {}
    \* no function is called on its own
    /\ f_fn = "none"
    /\ f_pc = "off"
    /\ f_args = <<>>
    /\ f_result = FALSE
    \* no link of a page is recorded
    /\ s_page_links = {}
    /\ s_fetch_failed = FALSE
    \* get_api_content is not called
    /\ g_pc = "off"
    /\ g_rate_limit_remaining = 0
    /\ g_requests = 0
    /\ g_pauses = 0
    /\ g_result = "none"
    \* no page record is built
    /\ c_links_of = {}
    /\ c_extracted = {}
    /\ c_page_task = {}
    /\ c_written = {}

\* is_duplicate_content: SELECT 1 FROM pages WHERE content_hash = ?
is_duplicate_content(db, h) == \E u \in DOMAIN db : db[u] = h

\* DatabaseManager.save_page: INSERT OR REPLACE keyed by url.
save_page(db, url, h) == [db EXCEPT ![url] = h]

\* process_url's loop over page_data.links: a link is appended with depth + 1
\* unless it is in visited_urls.
RECURSIVE MEnqueueLinks(_, _, _, _)
MEnqueueLinks(q, ls, d, visited) ==
    IF ls = <<>> THEN q
    ELSE MEnqueueLinks(IF Head(ls) \notin visited THEN Append(q, <<Head(ls), d + 1>>) ELSE q,
                       Tail(ls), d, visited)

\* The dispatch test of crawl's inner loop for a dequeued entry.
MDispatchable(url, depth, visited, max_depth) ==
    url \notin visited /\ depth <= max_depth

\* The test of crawl's outer while loop.
MKeepCrawlingBudgetOnly(queue, visited, max_pages) == Cardinality(visited) < max_pages
MKeepCrawling(queue, visited, max_pages) ==
    queue # <<>> /\ Cardinality(visited) < max_pages

\* crawl: initialize() and the append of (base_url, 0).
MCrawlStart ==
    /\ m_pc = "init"
    /\ m_url_queue' = Append(m_url_queue, <<m_base_url, 0>>)
    /\ m_pc' = "outer"
    /\ UNCHANGED <<m_helpers, m_max_depth, m_max_pages, m_concurrent_requests, m_visited_urls,
                   m_tasks, m_db, m_fetches, m_dupLinks>>

\* crawl: the test of the outer while loop; on exit the finally block closes
\* the session and crawl returns.
MOuterTest ==
    /\ m_pc = "outer"
    /\ m_pc' = IF MKeepCrawling(m_url_queue, m_visited_urls, m_max_pages)
               THEN "inner" ELSE "done"
    /\ UNCHANGED <<m_helpers, m_max_depth, m_max_pages, m_concurrent_requests, m_visited_urls,
                   m_url_queue, m_tasks, m_db, m_fetches, m_dupLinks>>

\* crawl: one iteration of the inner while loop: popleft, and create_task for
\* an entry that passes the dispatch test.  A created task does not run before
\* crawl awaits gather.
MDequeue ==
    /\ m_pc = "inner"
    /\ Len(m_tasks) < m_concurrent_requests /\ m_url_queue # <<>>
    /\ LET url == Head(m_url_queue)[1]
           depth == Head(m_url_queue)[2]
       IN /\ m_url_queue' = Tail(m_url_queue)
          /\ m_tasks' = IF MDispatchable(url, depth, m_visited_urls, m_max_depth)
                        THEN Append(m_tasks, [url |-> url, depth |-> depth, pc |-> "start",
                                              hash |-> NoHash, links |-> <<>>])
                        ELSE m_tasks
    /\ UNCHANGED <<m_helpers, m_pc, m_max_depth, m_max_pages, m_concurrent_requests, m_visited_urls,
                   m_db, m_fetches, m_dupLinks>>

\* crawl: the inner loop ends; with tasks it awaits gather, without it goes back
\* to the outer test.
MInnerExit ==
    /\ m_pc = "inner"
    /\ ~(Len(m_tasks) < m_concurrent_requests /\ m_url_queue # <<>>)
    /\ m_pc' = IF m_tasks # <<>> THEN "gather" ELSE "outer"
    /\ UNCHANGED <<m_helpers, m_max_depth, m_max_pages, m_concurrent_requests, m_visited_urls,
                   m_url_queue, m_tasks, m_db, m_fetches, m_dupLinks>>

\* crawl: gather returns when every task of the batch has ended; tasks.clear().
MGatherDone ==
    /\ m_pc = "gather"
    /\ \A i \in 1..Len(m_tasks) : m_tasks[i].pc = "done"
    /\ m_tasks' = <<>>
    /\ m_pc' = "outer"
    /\ UNCHANGED <<m_helpers, m_max_depth, m_max_pages, m_concurrent_requests, m_visited_urls,
                   m_url_queue, m_db, m_fetches, m_dupLinks>>

\* process_url up to its first suspension: visited_urls.add(url), then
\* get_page_content awaits rate_limiter.acquire().  The event loop starts the
\* tasks of a batch in the order of their creation.
MProcessUrlStart(i) ==
    /\ m_pc = "gather"
    /\ m_tasks[i].pc = "start"
    /\ \A j \in 1..(i - 1) : m_tasks[j].pc # "start"
    /\ m_visited_urls' = m_visited_urls \cup {m_tasks[i].url}
    /\ m_tasks' = [m_tasks EXCEPT ![i].pc = "acquire"]
    /\ UNCHANGED <<m_helpers, m_pc, m_max_depth, m_max_pages, m_concurrent_requests,
                   m_url_queue, m_db, m_fetches, m_dupLinks>>

\* get_page_content: acquire() has returned and session.get sends the request.
MSendRequest(i) ==
    /\ m_pc = "gather"
    /\ m_tasks[i].pc = "acquire"
    /\ m_fetches' = [m_fetches EXCEPT ![m_tasks[i].url] = @ + 1]
    /\ m_tasks' = [m_tasks EXCEPT ![i].pc = "get"]
    /\ UNCHANGED <<m_helpers, m_pc, m_max_depth, m_max_pages, m_concurrent_requests, m_visited_urls,
                   m_url_queue, m_db, m_dupLinks>>

\* get_page_content: the response headers arrive.  A status other than 200, a
\* content type other than text/html, or an exception make it return None;
\* otherwise it awaits response.text().  The tasks of the batch, ready since
\* gather was awaited, have all been started before any response is handled.
MResponse(i) ==
    /\ m_pc = "gather"
    /\ m_tasks[i].pc = "get"
    /\ \A j \in 1..Len(m_tasks) : m_tasks[j].pc # "start"
    /\ \E ok \in BOOLEAN :
         m_tasks' = [m_tasks EXCEPT ![i].pc = IF ok THEN "text" ELSE "done"]
    /\ UNCHANGED <<m_helpers, m_pc, m_max_depth, m_max_pages, m_concurrent_requests, m_visited_urls,
                   m_url_queue, m_db, m_fetches, m_dupLinks>>

\* The rest of process_url once get_page_content has returned page_data:
\* save_page, then the links are appended to the queue.
MSaveAndEnqueue(i, h, ls) ==
    /\ m_db' = save_page(m_db, m_tasks[i].url, h)
    /\ m_url_queue' = MEnqueueLinks(m_url_queue, ls, m_tasks[i].depth, m_visited_urls)
    /\ m_tasks' = [m_tasks EXCEPT ![i].pc = "done", ![i].hash = h, ![i].links = ls]

\* get_page_content after response.text(): the body has digest h and links ls.
\* Duplicate content returns None (before extract_links is called).  Otherwise
\* page_data is built (without the helper methods that raises AttributeError,
\* which the except clause turns into None) and the `async with` block is left, which awaits the
\* response's __aexit__: the task either goes on without suspending (save_page
\* and the enqueueing follow at once) or is suspended there while the
\* connection is released.
MReadText(i) ==
    /\ m_pc = "gather"
    /\ m_tasks[i].pc = "text"
    /\ \E h \in MPageHashes(m_site, m_tasks[i].url), ls \in MPageLinks(m_site, m_tasks[i].url) :
         IF is_duplicate_content(m_db, h)
         THEN /\ m_tasks' = [m_tasks EXCEPT ![i].pc = "done"]
              /\ m_dupLinks' = m_dupLinks \cup {<<ls[k], m_tasks[i].depth + 1>> : k \in 1..Len(ls)}
              /\ UNCHANGED <<m_db, m_url_queue>>
         ELSE IF ~m_helpers
         THEN /\ m_tasks' = [m_tasks EXCEPT ![i].pc = "done"]
              /\ UNCHANGED <<m_db, m_url_queue, m_dupLinks>>
         ELSE /\ \/ MSaveAndEnqueue(i, h, ls)
                 \/ /\ m_tasks' = [m_tasks EXCEPT ![i].pc = "exit", ![i].hash = h, ![i].links = ls]
                    /\ UNCHANGED <<m_db, m_url_queue>>
              /\ UNCHANGED m_dupLinks
    /\ UNCHANGED <<m_helpers, m_pc, m_max_depth, m_max_pages, m_concurrent_requests, m_visited_urls,
                   m_fetches>>

\* process_url resumes after the suspended exit of the `async with` block.
MResume(i) ==
    /\ m_pc = "gather"
    /\ m_tasks[i].pc = "exit"
    /\ MSaveAndEnqueue(i, m_tasks[i].hash, m_tasks[i].links)
    /\ UNCHANGED <<m_helpers, m_pc, m_max_depth, m_max_pages, m_concurrent_requests, m_visited_urls,
                   m_fetches, m_dupLinks>>

MNext ==
    \/ MCrawlStart /\ UNCHANGED notModern
    \/ MOuterTest /\ UNCHANGED notModern
    \/ MDequeue /\ UNCHANGED notModern
    \/ MInnerExit /\ UNCHANGED notModern
    \/ MGatherDone /\ UNCHANGED notModern
    \/ \E i \in 1..Len(m_tasks) : MProcessUrlStart(i) /\ UNCHANGED notModern
    \/ \E i \in 1..Len(m_tasks) : MSendRequest(i) /\ UNCHANGED notModern
    \/ \E i \in 1..Len(m_tasks) : MResponse(i) /\ UNCHANGED notModern
    \/ \E i \in 1..Len(m_tasks) : MReadText(i) /\ UNCHANGED notModern
    \/ \E i \in 1..Len(m_tasks) : MResume(i) /\ UNCHANGED notModern

SpecModern == MInit /\ [][MNext]_vars

\* ---------------------------------------------------------------- claims on ModernWebCrawler

MSavedUrls == {u \in DOMAIN m_db : m_db[u] # NoHash}

\* C1: with a page parser that returns each page's links, every URL is claimed
\* and fetched by process_url at most once in a run.
C1_FetchedAtMostOnce == m_helpers => \A u \in MUrls : m_fetches[u] <= 1

\* C3: with a page parser that returns each page's links, the number of pages
\* saved by process_url in one run never exceeds max_pages.
C3_SavedWithinMaxPages == m_helpers => Cardinality(MSavedUrls) <= m_max_pages

C9_DuplicatePageLinksCrawled ==
    (m_pc = "done" /\ Cardinality(m_visited_urls) < m_max_pages)
        => \A e \in m_dupLinks : e[2] <= m_max_depth => e[1] \in m_visited_urls

\* C19: with a page parser that returns each page's links, crawl stops
\* dispatching only when the queue is empty or the number of saved pages has
\* reached max_pages: URLs that were claimed but gave no page do not use up the
\* page budget.
C19_StopsOnlyWhenBudgetOfPagesSpent ==
    (m_helpers /\ m_pc = "done")
        => (m_url_queue = <<>> \/ Cardinality(MSavedUrls) >= m_max_pages)

\* ================================================================
\* WebCrawler of src/.other/pro0/pro_crawler_A.py (thread pool)
\* ================================================================

\* The URLs of the crawled site that pass is_valid_url; "S" is base_url.
PUrls == {"S", "A", "B"}

p_base_url == "S"

\* The link lists extract_links can return for a page.
PLinkLists == SeqsUpTo(PUrls, MaxLinks)

PIdle == [pc |-> "idle", url |-> "S", depth |-> 0, links |-> <<>>, t |-> 0]

\* WebCrawler.__init__: the queue holds (base_url, 0); the executor of crawl has
\* `threads` workers, all idle.
PInit ==
    /\ p_main = "loop"
    /\ p_threads \in 1..MaxConcurrency
    /\ p_max_depth \in 0..PMaxDepthCfg
    /\ p_chunk_size \in 1..MaxChunkSize
    /\ p_visited_urls = {}
    /\ p_queue = <<<<p_base_url, 0>>>>
    /\ p_work = <<>>
    /\ p_workers = [w \in 1..p_threads |-> PIdle]
    /\ p_current_chunk = <<>>
    /\ p_chunk_counter = 1
    /\ p_total_pages = 0
    /\ p_files = <<>>
    /\ p_fetches = [u \in PUrls |-> 0]
    /\ p_appended = [u \in PUrls |-> 0]
    \* ModernWebCrawler is not running
    /\ m_pc = "off"
    /\ m_helpers = FALSE
    /\ m_max_depth = 0
    /\ m_max_pages = 0
    /\ m_concurrent_requests = 0
    /\ m_visited_urls = {}
    /\ m_url_queue = <<>>
    /\ m_tasks = <<>>
    /\ m_db = [u \in MUrls |-> NoHash]
    /\ m_fetches = [u \in MUrls |-> 0]
    /\ m_dupLinks = {}
    \* the config-driven crawler is not running
    /\ c_pc = "off"
    /\ c_base_urls = <<>>
    /\ c_idx = 0
    /\ c_max_depth = 0
    /\ c_max_pages = 0
    /\ c_chunk_size = 0
    /\ c_visited_urls = {}
    /\ c_tasks = <<>>
    /\ c_current_chunk = <<>>
    /\ c_chunk_counter = 0
    /\ c_total_pages = 0
    /\ c_files = <<>>
    /\ c_fetches = <<>>
    /\ c_asScenario = FALSE
    /\ c_concurrency = 0
    /\ c_respect_robots = FALSE
    /\ c_robots = <<>>
    /\ c_robots_parsers = {}
    /\ c_clock = 0
    /\ c_last_start = <<>>
    /\ c_min_gap = <<>>
    \* the sequential crawlers are not running
    /\ s_variant = "off"
    /\ s_pc = "off"
    /\ s_chunk_size = 0
    /\ s_max_depth = 0
    /\ s_max_pages = 0
    /\ s_visited_urls = {}
    /\ s_urls_to_visit = <<>>
    /\ s_stack = <<>>
    /\ s_current_chunk = <<>>
    /\ s_chunk_counter = 0
    /\ s_total_pages = 0
    /\ s_files = <<>>
    /\ s_emitted = <<>>
    \* the RateLimiter is not in use
    /\ r_delay = 0
    /\ r_clock = 0
    /\ r_last_request = 0
    /\ r_locked = FALSE
    /\ r_waiters = <<>>
    /\ r_callers = <<>>
    /\ r_last_return = 0
    /\ r_min_gap = 0
    \* AsyncWebCrawler is not running
    /\ a_pc = "off"
    /\ a_max_concurrent = 0
    /\ a_visited_urls = {}
    /\ a_urls_to_visit = <<>>
    /\ a_tasks = <<>>
    /\ a_sem = 0
    /\ a_sem_waiters = <<>>
    /\ a_pages = <<>>
    /\ a_fetches = <<>>
    \* any site for ModernWebCrawler, no dequeue recorded
    /\ m_site = "any"
    /\ m_last_depth = -1
    /\ m_decreased = FALSE
    \* no retries configured, no error registered
    /\ c_retry_attempts = 0
    /\ c_errors = {}
    \* no function is called on its own
    /\ f_fn = "none"
    /\ f_pc = "off"
    /\ f_args = <<>>
    /\ f_result = FALSE
    \* no link of a page is recorded
    /\ s_page_links = {}
    /\ s_fetch_failed = FALSE
    \* get_api_content is not called
    /\ g_pc = "off"
    /\ g_rate_limit_remaining = 0
    /\ g_requests = 0
    /\ g_pauses = 0
    /\ g_result = "none"
    \* no page record is built
    /\ c_links_of = {}
    /\ c_extracted = {}
    /\ c_page_task = {}
    /\ c_written = {}

\* The early-return test of crawl_url.
PSkipAnyDepth(url, depth, visited, max_depth) == url \in visited
PSkip(url, depth, visited, max_depth) == url \in visited \/ depth > max_depth

\* crawl: one iteration of the while loop: queue.empty() is false, queue.get()
\* takes the oldest entry and executor.submit hands it to the pool.
PMainTake ==
    /\ p_main = "loop"
    /\ p_queue # <<>>
    /\ p_work' = Append(p_work, Head(p_queue))
    /\ p_queue' = Tail(p_queue)
    /\ UNCHANGED <<p_main, p_threads, p_max_depth, p_chunk_size, p_visited_urls, p_workers,
                   p_current_chunk, p_chunk_counter, p_total_pages, p_files, p_fetches, p_appended>>

\* crawl: queue.empty() is true, the loop ends and the `with` block is left:
\* the executor is shut down and crawl waits for the submitted work.
PMainExit ==
    /\ p_main = "loop"
    /\ p_queue = <<>>
    /\ p_main' = "shutdown"
    /\ UNCHANGED <<p_threads, p_max_depth, p_chunk_size, p_visited_urls, p_queue, p_work,
                   p_workers, p_current_chunk, p_chunk_counter, p_total_pages, p_files,
                   p_fetches, p_appended>>

\* crawl after the executor's shutdown: every submitted call has ended; the
\* remaining pages are saved (save_chunk, with no other thread running) and
\* crawl returns.
PMainFinish ==
    /\ p_main = "shutdown"
    /\ p_work = <<>>
    /\ \A w \in 1..p_threads : p_workers[w].pc = "idle"
    /\ IF p_current_chunk # <<>>
       THEN /\ p_files' = Append(p_files, [number |-> p_chunk_counter, pages |-> p_current_chunk])
            /\ p_current_chunk' = <<>>
            /\ p_chunk_counter' = p_chunk_counter + 1
       ELSE UNCHANGED <<p_files, p_current_chunk, p_chunk_counter>>
    /\ p_main' = "done"
    /\ UNCHANGED <<p_threads, p_max_depth, p_chunk_size, p_visited_urls, p_queue, p_work,
                   p_workers, p_total_pages, p_fetches, p_appended>>

\* An idle worker thread of the executor takes the oldest submitted call
\* crawl_url(url, depth).
PWorkerTake(w) ==
    /\ p_workers[w].pc = "idle"
    /\ p_work # <<>>
    /\ p_workers' = [p_workers EXCEPT ![w] = [PIdle EXCEPT !.pc = "check",
                                                          !.url = Head(p_work)[1],
                                                          !.depth = Head(p_work)[2]]]
    /\ p_work' = Tail(p_work)
    /\ UNCHANGED <<p_main, p_threads, p_max_depth, p_chunk_size, p_visited_urls, p_queue,
                   p_current_chunk, p_chunk_counter, p_total_pages, p_files, p_fetches, p_appended>>

\* crawl_url: `if url in self.visited_urls or depth > self.max_depth: return`.
PCheck(w) ==
    /\ p_workers[w].pc = "check"
    /\ p_workers' = [p_workers EXCEPT ![w].pc =
                        IF PSkip(p_workers[w].url, p_workers[w].depth, p_visited_urls, p_max_depth)
                        THEN "idle" ELSE "add"]
    /\ UNCHANGED <<p_main, p_threads, p_max_depth, p_chunk_size, p_visited_urls, p_queue, p_work,
                   p_current_chunk, p_chunk_counter, p_total_pages, p_files, p_fetches, p_appended>>

\* crawl_url: self.visited_urls.add(url).
PAdd(w) ==
    /\ p_workers[w].pc = "add"
    /\ p_visited_urls' = p_visited_urls \cup {p_workers[w].url}
    /\ p_workers' = [p_workers EXCEPT ![w].pc = "fetch"]
    /\ UNCHANGED <<p_main, p_threads, p_max_depth, p_chunk_size, p_queue, p_work,
                   p_current_chunk, p_chunk_counter, p_total_pages, p_files, p_fetches, p_appended>>

\* crawl_url: fetch_content sends the request; a RequestException gives
\* (None, None) and crawl_url returns, otherwise extract_links gives the links.
PFetch(w) ==
    /\ p_workers[w].pc = "fetch"
    /\ p_fetches' = [p_fetches EXCEPT ![p_workers[w].url] = @ + 1]
    /\ \/ p_workers' = [p_workers EXCEPT ![w].pc = "idle"]
       \/ \E ls \in PLinkLists :
            p_workers' = [p_workers EXCEPT ![w].pc = "append", ![w].links = ls]
    /\ UNCHANGED <<p_main, p_threads, p_max_depth, p_chunk_size, p_visited_urls, p_queue, p_work,
                   p_current_chunk, p_chunk_counter, p_total_pages, p_files, p_appended>>

\* crawl_url: self.current_chunk.append(page_data), and the read of
\* self.total_pages for `+= 1`.
PAppend(w) ==
    /\ p_workers[w].pc = "append"
    /\ p_current_chunk' = Append(p_current_chunk, p_workers[w].url)
    /\ p_appended' = [p_appended EXCEPT ![p_workers[w].url] = @ + 1]
    /\ p_workers' = [p_workers EXCEPT ![w].pc = "count", ![w].t = p_total_pages]
    /\ UNCHANGED <<p_main, p_threads, p_max_depth, p_chunk_size, p_visited_urls, p_queue, p_work,
                   p_chunk_counter, p_total_pages, p_files, p_fetches>>

\* crawl_url: the store of `self.total_pages += 1`.
PCount(w) ==
    /\ p_workers[w].pc = "count"
    /\ p_total_pages' = p_workers[w].t + 1
    /\ p_workers' = [p_workers EXCEPT ![w].pc = "put", ![w].t = 0]
    /\ UNCHANGED <<p_main, p_threads, p_max_depth, p_chunk_size, p_visited_urls, p_queue, p_work,
                   p_current_chunk, p_chunk_counter, p_files, p_fetches, p_appended>>

\* crawl_url: one iteration of `for link in links`: the link is put on the
\* queue with depth + 1 unless it is in visited_urls.
PPut(w) ==
    /\ p_workers[w].pc = "put"
    /\ p_workers[w].links # <<>>
    /\ LET link == Head(p_workers[w].links)
       IN p_queue' = IF link \notin p_visited_urls
                     THEN Append(p_queue, <<link, p_workers[w].depth + 1>>)
                     ELSE p_queue
    /\ p_workers' = [p_workers EXCEPT ![w].links = Tail(@)]
    /\ UNCHANGED <<p_main, p_threads, p_max_depth, p_chunk_size, p_visited_urls, p_work,
                   p_current_chunk, p_chunk_counter, p_total_pages, p_files, p_fetches, p_appended>>

\* crawl_url: `if len(self.current_chunk) >= self.chunk_size` and, in
\* save_chunk, `if not self.current_chunk: return`.
PChunkTest(w) ==
    /\ p_workers[w].pc = "put"
    /\ p_workers[w].links = <<>>
    /\ p_workers' = [p_workers EXCEPT ![w].pc =
                        IF Len(p_current_chunk) >= p_chunk_size /\ p_current_chunk # <<>>
                        THEN "write" ELSE "idle"]
    /\ UNCHANGED <<p_main, p_threads, p_max_depth, p_chunk_size, p_visited_urls, p_queue, p_work,
                   p_current_chunk, p_chunk_counter, p_total_pages, p_files, p_fetches, p_appended>>

\* save_chunk: the file named after chunk_counter is written with the pages
\* that current_chunk holds now.
PWrite(w) ==
    /\ p_workers[w].pc = "write"
    /\ p_files' = Append(p_files, [number |-> p_chunk_counter, pages |-> p_current_chunk])
    /\ p_workers' = [p_workers EXCEPT ![w].pc = "reset"]
    /\ UNCHANGED <<p_main, p_threads, p_max_depth, p_chunk_size, p_visited_urls, p_queue, p_work,
                   p_current_chunk, p_chunk_counter, p_total_pages, p_fetches, p_appended>>

\* save_chunk: `self.current_chunk = []`, and the read of chunk_counter for `+= 1`.
PReset(w) ==
    /\ p_workers[w].pc = "reset"
    /\ p_current_chunk' = <<>>
    /\ p_workers' = [p_workers EXCEPT ![w].pc = "inc", ![w].t = p_chunk_counter]
    /\ UNCHANGED <<p_main, p_threads, p_max_depth, p_chunk_size, p_visited_urls, p_queue, p_work,
                   p_chunk_counter, p_total_pages, p_files, p_fetches, p_appended>>

\* save_chunk: the store of `self.chunk_counter += 1`; crawl_url returns.
PInc(w) ==
    /\ p_workers[w].pc = "inc"
    /\ p_chunk_counter' = p_workers[w].t + 1
    /\ p_workers' = [p_workers EXCEPT ![w] = PIdle]
    /\ UNCHANGED <<p_main, p_threads, p_max_depth, p_chunk_size, p_visited_urls, p_queue, p_work,
                   p_current_chunk, p_total_pages, p_files, p_fetches, p_appended>>

PNext ==
    \/ PMainTake /\ UNCHANGED notPool
    \/ PMainExit /\ UNCHANGED notPool
    \/ PMainFinish /\ UNCHANGED notPool
    \/ \E w \in 1..p_threads : PWorkerTake(w) /\ UNCHANGED notPool
    \/ \E w \in 1..p_threads : PCheck(w) /\ UNCHANGED notPool
    \/ \E w \in 1..p_threads : PAdd(w) /\ UNCHANGED notPool
    \/ \E w \in 1..p_threads : PFetch(w) /\ UNCHANGED notPool
    \/ \E w \in 1..p_threads : PAppend(w) /\ UNCHANGED notPool
    \/ \E w \in 1..p_threads : PCount(w) /\ UNCHANGED notPool
    \/ \E w \in 1..p_threads : PPut(w) /\ UNCHANGED notPool
    \/ \E w \in 1..p_threads : PChunkTest(w) /\ UNCHANGED notPool
    \/ \E w \in 1..p_threads : PWrite(w) /\ UNCHANGED notPool
    \/ \E w \in 1..p_threads : PReset(w) /\ UNCHANGED notPool
    \/ \E w \in 1..p_threads : PInc(w) /\ UNCHANGED notPool

SpecPool == PInit /\ [][PNext]_vars

\* ---------------------------------------------------------------- claims on the thread-pool crawler

\* C2: no URL is fetched by more than one worker.
C2_PoolFetchedAtMostOnce == \A u \in PUrls : p_fetches[u] <= 1

\* C5: when crawl returns, the queue is empty: every entry ever put on it has
\* been dequeued and handed to crawl_url.
C5_FrontierEmptyAtReturn == p_main = "done" => p_queue = <<>>

\* How often the page of u occurs in a list of pages.
RECURSIVE POccurrences(_, _)
POccurrences(pages, u) ==
    IF pages = <<>> THEN 0
    ELSE (IF Head(pages) = u THEN 1 ELSE 0) + POccurrences(Tail(pages), u)

\* How often the page of u has been written to the chunk files.
RECURSIVE PWritten(_, _)
PWritten(files, u) ==
    IF files = <<>> THEN 0
    ELSE POccurrences(Head(files).pages, u) + PWritten(Tail(files), u)

\* C11: under every interleaving of the workers, no chunk file holds more than
\* chunk_size pages, no two chunk files carry the same chunk number, no
\* appended page is written twice, and when crawl returns every appended page
\* has been written (exactly once).
C11_ChunksExactlyOnce ==
    /\ \A i \in 1..Len(p_files) : Len(p_files[i].pages) <= p_chunk_size
    /\ \A i, j \in 1..Len(p_files) : i # j => p_files[i].number # p_files[j].number
    /\ \A u \in DOMAIN p_appended : PWritten(p_files, u) <= p_appended[u]
    /\ p_main = "done" => \A u \in DOMAIN p_appended : PWritten(p_files, u) = p_appended[u]

\* ================================================================
\* WebCrawler of src/.other/pro1/web_crawler/crawler/core.py
\* (asyncio, one task per link; respect_robots off)
\* ================================================================

\* The URLs that occur as start URLs and as hrefs of pages.  Texts are
\* sequences of characters:
\*   S  https://ex.co/      A  https://ex.co/a      B  https://ex.co/b
\*   C  https://zz.io/c     (another site)
CUrls == {"S", "A", "B", "C"}

\* urlparse(url).scheme
CScheme(u) == <<"h", "t", "t", "p", "s">>

\* urlparse(url).netloc
CNetloc(u) == IF u = "C" THEN <<"z", "z", ".", "i", "o">> ELSE <<"e", "x", ".", "c", "o">>

\* urlparse(url).path
CPath(u) ==
    CASE u = "S" -> <<"/">>
      [] u = "A" -> <<"/", "a">>
      [] u = "B" -> <<"/", "b">>
      [] u = "C" -> <<"/", "c">>

\* The URL as a string.
CText(u) == CScheme(u) \o <<":", "/", "/">> \o CNetloc(u) \o CPath(u)

\* str.startswith
StartsWith(t, pre) == Len(pre) <= Len(t) /\ SubSeq(t, 1, Len(pre)) = pre

\* str.endswith
EndsWith(t, suf) == Len(suf) <= Len(t) /\ SubSeq(t, Len(t) - Len(suf) + 1, Len(t)) = suf

\* `pattern in text`
Contains(t, pat) == \E i \in 1..(Len(t) - Len(pat) + 1) : SubSeq(t, i, i + Len(pat) - 1) = pat

\* path.rsplit('/', 1)[0] if '/' in path else path
RSplitHead(path) ==
    IF \E i \in 1..Len(path) : path[i] = "/"
    THEN LET last == CHOOSE i \in 1..Len(path) :
                        path[i] = "/" /\ \A j \in (i + 1)..Len(path) : path[j] # "/"
         IN SubSeq(path, 1, last - 1)
    ELSE path

\* config['urls']: exclude_exact (of its literals, the one the URLs above can
\* meet), include_patterns and exclude_patterns (lists of literals; both empty
\* in DEFAULT_CONFIG).
c_exclude_exact == << <<"/", "l", "o", "g", "i", "n">> >>
c_include_patterns == <<>>
c_exclude_patterns == <<>>

\* str.lower, on the letters of the URLs here.
LowerChar(ch) == IF ch = "L" THEN "l" ELSE ch
Lower(t) == [i \in 1..Len(t) |-> LowerChar(t[i])]

\* utils.is_valid_url on the parts urlparse gives and the URL as a string:
\* `pattern in url.lower()` lowers the URL, not the pattern.
UExcludedExact(text, exclude_exact) ==
    exclude_exact # <<>> /\ \E k \in 1..Len(exclude_exact) : Contains(Lower(text), exclude_exact[k])
UIsValidUrl(scheme, netloc, path, text, base_domain, base_path, includes, excludes, exclude_exact) ==
    /\ scheme # <<>> /\ netloc # <<>>
    /\ netloc = base_domain \/ EndsWith(netloc, <<".">> \o base_domain)
    /\ StartsWith(path, base_path)
    /\ ~UExcludedExact(text, exclude_exact)
    /\ ~(includes # <<>> /\ ~\E k \in 1..Len(includes) : Contains(text, includes[k]))
    /\ ~(excludes # <<>> /\ \E k \in 1..Len(excludes) : Contains(text, excludes[k]))

\* utils.is_valid_url
is_valid_url(u, base_domain, base_path, include_patterns, exclude_patterns, exclude_exact) ==
    UIsValidUrl(CScheme(u), CNetloc(u), CPath(u), CText(u), base_domain, base_path,
                include_patterns, exclude_patterns, exclude_exact)

\* The domain and path extract_links hands to is_valid_url for a link: those
\* of the link itself.
CLinkBaseDomain(link) == CNetloc(link)
CLinkBasePath(link) == RSplitHead(CPath(link))

\* WebCrawler.extract_links (respect_robots off): the hrefs that pass
\* is_valid_url and are not in visited_urls, in page order.
RECURSIVE extract_links(_, _)
extract_links(hrefs, visited) ==
    IF hrefs = <<>> THEN <<>>
    ELSE LET link == Head(hrefs)
             rest == extract_links(Tail(hrefs), visited)
         IN IF is_valid_url(link, CLinkBaseDomain(link), CLinkBasePath(link),
                            c_include_patterns, c_exclude_patterns, c_exclude_exact)
               /\ link \notin visited
            THEN <<link>> \o rest
            ELSE rest

\* The test crawl and crawl_async apply to a start URL.
CStartValid(u) ==
    is_valid_url(u, CNetloc(u), CPath(u), c_include_patterns, c_exclude_patterns, c_exclude_exact)

\* max_pages of a configuration without a page budget (Python's None).
None == -1

\* `self.max_pages is not None and self.total_pages >= self.max_pages`
CBudgetSpent(max_pages, total_pages) == max_pages # None /\ total_pages >= max_pages

\* `depth > self.max_depth or url in self.visited_urls`
CSkipDepthOnly(url, depth, visited, max_depth) == depth > max_depth
CSkip(url, depth, visited, max_depth) == depth > max_depth \/ url \in visited

\* The depth crawl_async gives the start URLs.
CStartDepth == 1

\* The hrefs a fetched page can carry.
CHrefLists == SeqsUpTo(CUrls, CMaxLinks)

\* The site of the scenario of section 8 of the specification: the seed page
\* links to A and B, which have no links.
CScenarioWeb == [u \in CUrls |-> IF u = "S" THEN <<"A", "B">> ELSE <<>>]

\* The domains of the URLs.
CNetlocs == {CNetloc(u) : u \in CUrls}

\* The robots policy of the domains when c_robots = "rules": the lines of
\* robots.txt, and what they say (the Disallow prefix /a, no Allow prefix, a
\* crawl-delay).
CRobotsTxt == <<"User-agent: *", "Disallow: /a", "Crawl-delay: 1">>
CPolicyDisallow == << <<"/", "a">> >>
CPolicyAllow == <<>>
CCrawlDelay == 1

\* RobotsParser.parse_rules raises NameError: its loop evaluates the name
\* `agent`, which is bound nowhere, for the first line of the text.  A text
\* without lines runs no iteration.
CParseRulesRaises(lines) == lines # <<>>

\* RobotsParser(...) raises: robots.txt was delivered (parse_robots catches
\* only RequestException) and parse_rules raises.
CRobotsParserRaises(robots, domain) ==
    robots[domain] = "rules" /\ CParseRulesRaises(CRobotsTxt)

\* allow_paths and disallowed_paths of a RobotsParser whose construction
\* returned: parse_rules was not called or ran no iteration.
CParsedAllow == <<>>
CParsedDisallow == <<>>

\* RobotsParser.is_allowed after `path = parsed_url.path`: the two loops.
RAllowMatch(path, allow_path) == allow_path = <<"/">> \/ StartsWith(path, allow_path)
RDisallowMatch(path, disallow_path) == disallow_path = <<"/">> \/ StartsWith(path, disallow_path)
RIsAllowedPath(path, allow_paths, disallowed_paths) ==
    IF \E k \in 1..Len(allow_paths) : RAllowMatch(path, allow_paths[k])
    THEN TRUE
    ELSE ~\E k \in 1..Len(disallowed_paths) : RDisallowMatch(path, disallowed_paths[k])

\* RobotsParser.is_allowed
is_allowed(u, allow_paths, disallowed_paths) ==
    RIsAllowedPath(CPath(u), allow_paths, disallowed_paths)

\* extract_links with respect_robots on raises: a link that passes is_valid_url
\* and is not visited belongs to a domain without a RobotsParser, and the
\* construction of the parser raises.
CExtractRaises(hrefs, visited, respect, robots, parsers) ==
    /\ respect
    /\ \E k \in 1..Len(extract_links(hrefs, visited)) :
            LET domain == CNetloc(extract_links(hrefs, visited)[k])
            IN domain \notin parsers /\ CRobotsParserRaises(robots, domain)

\* extract_links with respect_robots on, the links it keeps: those of
\* extract_links that the domain's parser allows (get_crawl_delay of such a
\* parser is None, so extract_links never sleeps).
RECURSIVE CRobotsFilter(_)
CRobotsFilter(links) ==
    IF links = <<>> THEN <<>>
    ELSE IF is_allowed(Head(links), CParsedAllow, CParsedDisallow)
         THEN <<Head(links)>> \o CRobotsFilter(Tail(links))
         ELSE CRobotsFilter(Tail(links))

\* The time between the latest fetch sent to the domain and a fetch sent now,
\* folded into the smallest such time seen.
CMinGap(min_gap, last, now) ==
    IF last = None THEN min_gap
    ELSE IF min_gap = None \/ now - last < min_gap THEN now - last ELSE min_gap

\* The longest time a run is observed for.
MaxClock == 1

\* WebCrawler.__init__ with a configuration of one or two start URLs and
\* respect_robots off.
CInit ==
    /\ c_pc = "loop"
    /\ c_base_urls \in {<<"S">>, <<"S", "A">>}
    /\ c_idx = 1
    /\ c_max_depth \in 1..CMaxDepthCfg
    /\ c_max_pages \in {None} \cup 1..CMaxPagesCfg
    /\ c_chunk_size \in 1..MaxChunkSize
    /\ c_visited_urls = {}
    /\ c_tasks = <<>>
    /\ c_current_chunk = <<>>
    /\ c_chunk_counter = 1
    /\ c_total_pages = 0
    /\ c_files = <<>>
    /\ c_fetches = [u \in CUrls |-> 0]
    /\ c_asScenario = TRUE
    /\ c_concurrency \in 1..MaxConcurrency
    /\ c_respect_robots = FALSE
    /\ c_robots = [d \in CNetlocs |-> "norules"]
    /\ c_robots_parsers = {}
    /\ c_clock = 0
    /\ c_last_start = [d \in CNetlocs |-> None]
    /\ c_min_gap = [d \in CNetlocs |-> None]
    \* ModernWebCrawler is not running
    /\ m_pc = "off"
    /\ m_helpers = FALSE
    /\ m_max_depth = 0
    /\ m_max_pages = 0
    /\ m_concurrent_requests = 0
    /\ m_visited_urls = {}
    /\ m_url_queue = <<>>
    /\ m_tasks = <<>>
    /\ m_db = [u \in MUrls |-> NoHash]
    /\ m_fetches = [u \in MUrls |-> 0]
    /\ m_dupLinks = {}
    \* the thread-pool crawler is not running
    /\ p_main = "off"
    /\ p_threads = 0
    /\ p_max_depth = 0
    /\ p_chunk_size = 0
    /\ p_visited_urls = {}
    /\ p_queue = <<>>
    /\ p_work = <<>>
    /\ p_workers = <<>>
    /\ p_current_chunk = <<>>
    /\ p_chunk_counter = 0
    /\ p_total_pages = 0
    /\ p_files = <<>>
    /\ p_fetches = <<>>
    /\ p_appended = <<>>
    \* the sequential crawlers are not running
    /\ s_variant = "off"
    /\ s_pc = "off"
    /\ s_chunk_size = 0
    /\ s_max_depth = 0
    /\ s_max_pages = 0
    /\ s_visited_urls = {}
    /\ s_urls_to_visit = <<>>
    /\ s_stack = <<>>
    /\ s_current_chunk = <<>>
    /\ s_chunk_counter = 0
    /\ s_total_pages = 0
    /\ s_files = <<>>
    /\ s_emitted = <<>>
    \* the RateLimiter is not in use
    /\ r_delay = 0
    /\ r_clock = 0
    /\ r_last_request = 0
    /\ r_locked = FALSE
    /\ r_waiters = <<>>
    /\ r_callers = <<>>
    /\ r_last_return = 0
    /\ r_min_gap = 0
    \* AsyncWebCrawler is not running
    /\ a_pc = "off"
    /\ a_max_concurrent = 0
    /\ a_visited_urls = {}
    /\ a_urls_to_visit = <<>>
    /\ a_tasks = <<>>
    /\ a_sem = 0
    /\ a_sem_waiters = <<>>
    /\ a_pages = <<>>
    /\ a_fetches = <<>>
    \* any site for ModernWebCrawler, no dequeue recorded
    /\ m_site = "any"
    /\ m_last_depth = -1
    /\ m_decreased = FALSE
    \* no retries configured, no error registered
    /\ c_retry_attempts = 0
    /\ c_errors = {}
    \* no function is called on its own
    /\ f_fn = "none"
    /\ f_pc = "off"
    /\ f_args = <<>>
    /\ f_result = FALSE
    \* no link of a page is recorded
    /\ s_page_links = {}
    /\ s_fetch_failed = FALSE
    \* get_api_content is not called
    /\ g_pc = "off"
    /\ g_rate_limit_remaining = 0
    /\ g_requests = 0
    /\ g_pauses = 0
    /\ g_result = "none"
    \* no page record is built
    /\ c_links_of = {}
    /\ c_extracted = {}
    /\ c_page_task = {}
    /\ c_written = {}

CNewTask(url, depth, parent) == [url |-> url, depth |-> depth, pc |-> "new", parent |-> parent]

\* The coroutines process_page_async(session, link, depth) for the given
\* links, as tasks of the parent.
CSpawn(links, depth, parent) == [k \in 1..Len(links) |-> CNewTask(links[k], depth, parent)]

\* The start URLs crawl_async makes tasks for.
RECURSIVE CValidStarts(_)
CValidStarts(urls) ==
    IF urls = <<>> THEN <<>>
    ELSE IF CStartValid(Head(urls)) THEN <<Head(urls)>> \o CValidStarts(Tail(urls))
         ELSE CValidStarts(Tail(urls))

\* crawl: one iteration of `for url in self.base_urls`: an invalid start URL is
\* skipped, a spent page budget ends the loop, otherwise
\* asyncio.run(self.crawl_async()) starts and gathers one task per valid start
\* URL.  After the loop crawl returns.
CCrawlLoop ==
    /\ c_pc = "loop"
    /\ IF c_idx > Len(c_base_urls)
       THEN c_pc' = "done" /\ UNCHANGED <<c_idx, c_tasks>>
       ELSE IF ~CStartValid(c_base_urls[c_idx])
       THEN c_idx' = c_idx + 1 /\ UNCHANGED <<c_pc, c_tasks>>
       ELSE IF CBudgetSpent(c_max_pages, c_total_pages)
       THEN c_pc' = "done" /\ UNCHANGED <<c_idx, c_tasks>>
       ELSE /\ c_pc' = "gather"
            /\ c_tasks' = CSpawn(CValidStarts(c_base_urls), CStartDepth, 0)
            /\ UNCHANGED c_idx
    /\ UNCHANGED <<c_base_urls, c_max_depth, c_max_pages, c_chunk_size, c_visited_urls,
                   c_current_chunk, c_chunk_counter, c_total_pages, c_files, c_fetches,
                   c_asScenario, c_concurrency, c_respect_robots, c_robots,
                   c_robots_parsers, c_clock, c_last_start, c_min_gap>>

\* crawl_async after gather: the start tasks have ended; a non-empty
\* current_chunk is handed to Reporting.save_chunk (it is neither cleared nor
\* is chunk_counter advanced), and crawl goes to its next start URL.
CAsyncFinish ==
    /\ c_pc = "gather"
    /\ \A i \in 1..Len(c_tasks) : c_tasks[i].pc = "done"
    /\ c_files' = IF c_current_chunk # <<>>
                  THEN Append(c_files, [number |-> c_chunk_counter, pages |-> c_current_chunk])
                  ELSE c_files
    /\ c_tasks' = <<>>
    /\ c_idx' = c_idx + 1
    /\ c_pc' = "loop"
    /\ UNCHANGED <<c_base_urls, c_max_depth, c_max_pages, c_chunk_size, c_visited_urls,
                   c_current_chunk, c_chunk_counter, c_total_pages, c_fetches, c_asScenario,
                   c_concurrency, c_respect_robots, c_robots, c_robots_parsers,
                   c_clock, c_last_start, c_min_gap>>

\* process_page_async up to its first suspension: the budget test, the depth and
\* visited test, visited_urls.add(url), and the request of
\* fetch_page_content_async.  Tasks start in the order of their creation.
CTaskStart(i) ==
    /\ c_pc = "gather"
    /\ c_tasks[i].pc = "new"
    /\ \A j \in 1..(i - 1) : c_tasks[j].pc # "new"
    /\ IF CBudgetSpent(c_max_pages, c_total_pages)
          \/ CSkip(c_tasks[i].url, c_tasks[i].depth, c_visited_urls, c_max_depth)
       THEN /\ c_tasks' = [c_tasks EXCEPT ![i].pc = "done"]
            /\ UNCHANGED <<c_visited_urls, c_fetches, c_last_start, c_min_gap>>
       ELSE /\ c_visited_urls' = c_visited_urls \cup {c_tasks[i].url}
            /\ c_fetches' = [c_fetches EXCEPT ![c_tasks[i].url] = @ + 1]
            /\ c_last_start' = [c_last_start EXCEPT ![CNetloc(c_tasks[i].url)] = c_clock]
            /\ c_min_gap' = [c_min_gap EXCEPT ![CNetloc(c_tasks[i].url)] =
                                CMinGap(@, c_last_start[CNetloc(c_tasks[i].url)], c_clock)]
            /\ c_tasks' = [c_tasks EXCEPT ![i].pc = "fetch"]
    /\ UNCHANGED <<c_pc, c_base_urls, c_idx, c_max_depth, c_max_pages, c_chunk_size,
                   c_current_chunk, c_chunk_counter, c_total_pages, c_files, c_asScenario,
                   c_concurrency, c_respect_robots, c_robots, c_robots_parsers, c_clock>>

\* process_page_async: the fetch failed (ClientError or TimeoutError):
\* html_content is None and the task returns [].
CFetchFailed(i) ==
    /\ c_pc = "gather"
    /\ c_tasks[i].pc = "fetch"
    /\ c_tasks' = [c_tasks EXCEPT ![i].pc = "done"]
    /\ c_asScenario' = FALSE
    /\ UNCHANGED <<c_pc, c_base_urls, c_idx, c_max_depth, c_max_pages, c_chunk_size,
                   c_visited_urls, c_current_chunk, c_chunk_counter, c_total_pages, c_files,
                   c_fetches, c_concurrency, c_respect_robots, c_robots, c_robots_parsers, 
                   c_clock, c_last_start, c_min_gap>>

\* process_page_async from the fetched page to `await asyncio.gather(*tasks)`:
\* total_pages += 1, the page is appended to current_chunk, a full chunk is
\* saved (and cleared, chunk_counter += 1), the links are extracted and one
\* coroutine per link is made unless the budget is spent.  Without coroutines
\* gather is complete at once and the task returns.  With respect_robots on,
\* extract_links makes the RobotsParser of a link's domain; when that raises,
\* the exception leaves process_page_async (the page is already recorded).
CFetchedWith(i, hrefs) ==
    /\ c_pc = "gather"
    /\ c_tasks[i].pc = "fetch"
    /\   LET url == c_tasks[i].url
             total == c_total_pages + 1
             chunk == Append(c_current_chunk, url)
             full == Len(chunk) >= c_chunk_size
             raises == CExtractRaises(hrefs, c_visited_urls, c_respect_robots, c_robots,
                                      c_robots_parsers)
             valid == extract_links(hrefs, c_visited_urls)
             links == IF c_respect_robots THEN CRobotsFilter(valid) ELSE valid
             children == IF CBudgetSpent(c_max_pages, total) THEN <<>>
                         ELSE CSpawn(links, c_tasks[i].depth + 1, i)
         IN /\ c_asScenario' = (c_asScenario /\ hrefs = CScenarioWeb[url])
            /\ c_total_pages' = total
            /\ c_current_chunk' = IF full THEN <<>> ELSE chunk
            /\ c_files' = IF full
                          THEN Append(c_files, [number |-> c_chunk_counter, pages |-> chunk])
                          ELSE c_files
            /\ c_chunk_counter' = IF full THEN c_chunk_counter + 1 ELSE c_chunk_counter
            /\ IF raises
               THEN /\ c_tasks' = [c_tasks EXCEPT ![i].pc = "raised"]
                    /\ UNCHANGED c_robots_parsers
               ELSE /\ c_tasks' = [c_tasks EXCEPT ![i].pc =
                                        IF children = <<>> THEN "done" ELSE "wait"]
                                   \o children
                    /\ c_robots_parsers' =
                            IF c_respect_robots
                            THEN c_robots_parsers \cup {CNetloc(valid[k]) : k \in 1..Len(valid)}
                            ELSE c_robots_parsers
    /\ UNCHANGED <<c_pc, c_base_urls, c_idx, c_max_depth, c_max_pages, c_chunk_size,
                   c_visited_urls, c_fetches, c_concurrency, c_respect_robots, c_robots,
                   c_clock, c_last_start, c_min_gap>>

CFetched(i) ==
    \E hrefs \in CHrefLists : CFetchedWith(i, hrefs)

\* process_page_async: gather returns when the tasks of the links have ended;
\* the task returns.
CJoin(i) ==
    /\ c_pc = "gather"
    /\ c_tasks[i].pc = "wait"
    /\ \A j \in 1..Len(c_tasks) : c_tasks[j].parent = i => c_tasks[j].pc = "done"
    /\ c_tasks' = [c_tasks EXCEPT ![i].pc = "done"]
    /\ UNCHANGED <<c_pc, c_base_urls, c_idx, c_max_depth, c_max_pages, c_chunk_size,
                   c_visited_urls, c_current_chunk, c_chunk_counter, c_total_pages, c_files,
                   c_fetches, c_asScenario, c_concurrency, c_respect_robots, c_robots,
                   c_robots_parsers, c_clock, c_last_start, c_min_gap>>

\* process_page_async: gather raises the exception of a task of the links,
\* and the exception leaves process_page_async.
CJoinRaised(i) ==
    /\ c_pc = "gather"
    /\ c_tasks[i].pc = "wait"
    /\ \E j \in 1..Len(c_tasks) : c_tasks[j].parent = i /\ c_tasks[j].pc = "raised"
    /\ c_tasks' = [c_tasks EXCEPT ![i].pc = "raised"]
    /\ UNCHANGED <<c_pc, c_base_urls, c_idx, c_max_depth, c_max_pages, c_chunk_size,
                   c_visited_urls, c_current_chunk, c_chunk_counter, c_total_pages, c_files,
                   c_fetches, c_asScenario, c_concurrency, c_respect_robots, c_robots,
                   c_robots_parsers, c_clock, c_last_start, c_min_gap>>

\* crawl_async: gather raises the exception of a start task; the exception
\* leaves crawl_async without the final save, asyncio.run cancels the tasks
\* that are left, and crawl logs the exception and goes to its next start URL.
CAsyncRaised ==
    /\ c_pc = "gather"
    /\ \E j \in 1..Len(c_tasks) : c_tasks[j].parent = 0 /\ c_tasks[j].pc = "raised"
    /\ c_tasks' = <<>>
    /\ c_idx' = c_idx + 1
    /\ c_pc' = "loop"
    /\ UNCHANGED <<c_base_urls, c_max_depth, c_max_pages, c_chunk_size, c_visited_urls,
                   c_current_chunk, c_chunk_counter, c_total_pages, c_files, c_fetches,
                   c_asScenario, c_concurrency, c_respect_robots, c_robots,
                   c_robots_parsers, c_clock, c_last_start, c_min_gap>>

\* Time passes while the tasks of crawl_async run.
CTick ==
    /\ c_pc = "gather"
    /\ c_clock < MaxClock
    /\ c_clock' = c_clock + 1
    /\ UNCHANGED <<c_pc, c_base_urls, c_idx, c_max_depth, c_max_pages, c_chunk_size,
                   c_visited_urls, c_tasks, c_current_chunk, c_chunk_counter, c_total_pages,
                   c_files, c_fetches, c_asScenario, c_concurrency, c_respect_robots,
                   c_robots, c_robots_parsers, c_last_start, c_min_gap>>

CNext ==
    \/ CCrawlLoop /\ UNCHANGED notCore
    \/ CAsyncFinish /\ UNCHANGED notCore
    \/ \E i \in 1..Len(c_tasks) : CTaskStart(i) /\ UNCHANGED notCore
    \/ \E i \in 1..Len(c_tasks) : CFetchFailed(i) /\ UNCHANGED notCore
    \/ \E i \in 1..Len(c_tasks) : CFetched(i) /\ UNCHANGED notCore
    \/ \E i \in 1..Len(c_tasks) : CJoin(i) /\ UNCHANGED notCore

SpecCore == CInit /\ [][CNext]_vars

\* WebCrawler.__init__ with respect_robots on (no page budget), and the
\* robots.txt of each domain.
CRInit ==
    /\ c_pc = "loop"
    /\ c_base_urls \in {<<"S">>, <<"S", "A">>}
    /\ c_idx = 1
    /\ c_max_depth \in 1..CMaxDepthCfg
    /\ c_max_pages = None
    /\ c_chunk_size = MaxChunkSize
    /\ c_visited_urls = {}
    /\ c_tasks = <<>>
    /\ c_current_chunk = <<>>
    /\ c_chunk_counter = 1
    /\ c_total_pages = 0
    /\ c_files = <<>>
    /\ c_fetches = [u \in CUrls |-> 0]
    /\ c_asScenario = TRUE
    /\ c_concurrency = MaxConcurrency
    /\ c_respect_robots = TRUE
    /\ c_robots \in [CNetlocs -> {"norules", "rules"}]
    /\ c_robots_parsers = {}
    /\ c_clock = 0
    /\ c_last_start = [d \in CNetlocs |-> None]
    /\ c_min_gap = [d \in CNetlocs |-> None]
    \* ModernWebCrawler is not running
    /\ m_pc = "off"
    /\ m_helpers = FALSE
    /\ m_max_depth = 0
    /\ m_max_pages = 0
    /\ m_concurrent_requests = 0
    /\ m_visited_urls = {}
    /\ m_url_queue = <<>>
    /\ m_tasks = <<>>
    /\ m_db = [u \in MUrls |-> NoHash]
    /\ m_fetches = [u \in MUrls |-> 0]
    /\ m_dupLinks = {}
    \* the thread-pool crawler is not running
    /\ p_main = "off"
    /\ p_threads = 0
    /\ p_max_depth = 0
    /\ p_chunk_size = 0
    /\ p_visited_urls = {}
    /\ p_queue = <<>>
    /\ p_work = <<>>
    /\ p_workers = <<>>
    /\ p_current_chunk = <<>>
    /\ p_chunk_counter = 0
    /\ p_total_pages = 0
    /\ p_files = <<>>
    /\ p_fetches = <<>>
    /\ p_appended = <<>>
    \* the sequential crawlers are not running
    /\ s_variant = "off"
    /\ s_pc = "off"
    /\ s_chunk_size = 0
    /\ s_max_depth = 0
    /\ s_max_pages = 0
    /\ s_visited_urls = {}
    /\ s_urls_to_visit = <<>>
    /\ s_stack = <<>>
    /\ s_current_chunk = <<>>
    /\ s_chunk_counter = 0
    /\ s_total_pages = 0
    /\ s_files = <<>>
    /\ s_emitted = <<>>
    \* the RateLimiter is not in use
    /\ r_delay = 0
    /\ r_clock = 0
    /\ r_last_request = 0
    /\ r_locked = FALSE
    /\ r_waiters = <<>>
    /\ r_callers = <<>>
    /\ r_last_return = 0
    /\ r_min_gap = 0
    \* AsyncWebCrawler is not running
    /\ a_pc = "off"
    /\ a_max_concurrent = 0
    /\ a_visited_urls = {}
    /\ a_urls_to_visit = <<>>
    /\ a_tasks = <<>>
    /\ a_sem = 0
    /\ a_sem_waiters = <<>>
    /\ a_pages = <<>>
    /\ a_fetches = <<>>
    \* any site for ModernWebCrawler, no dequeue recorded
    /\ m_site = "any"
    /\ m_last_depth = -1
    /\ m_decreased = FALSE
    \* no retries configured, no error registered
    /\ c_retry_attempts = 0
    /\ c_errors = {}
    \* no function is called on its own
    /\ f_fn = "none"
    /\ f_pc = "off"
    /\ f_args = <<>>
    /\ f_result = FALSE
    \* no link of a page is recorded
    /\ s_page_links = {}
    /\ s_fetch_failed = FALSE
    \* get_api_content is not called
    /\ g_pc = "off"
    /\ g_rate_limit_remaining = 0
    /\ g_requests = 0
    /\ g_pauses = 0
    /\ g_result = "none"
    \* no page record is built
    /\ c_links_of = {}
    /\ c_extracted = {}
    /\ c_page_task = {}
    /\ c_written = {}

CRNext ==
    \/ CCrawlLoop /\ UNCHANGED notCore
    \/ CAsyncFinish /\ UNCHANGED notCore
    \/ \E i \in 1..Len(c_tasks) : CTaskStart(i) /\ UNCHANGED notCore
    \/ \E i \in 1..Len(c_tasks) : CFetchFailed(i) /\ UNCHANGED notCore
    \/ \E i \in 1..Len(c_tasks) : CFetched(i) /\ UNCHANGED notCore
    \/ \E i \in 1..Len(c_tasks) : CJoin(i) /\ UNCHANGED notCore
    \/ \E i \in 1..Len(c_tasks) : CJoinRaised(i) /\ UNCHANGED notCore
    \/ CAsyncRaised /\ UNCHANGED notCore
    \/ CTick /\ UNCHANGED notCore

\* The config-driven crawler with respect_robots on, and the time.
SpecCoreRobots == CRInit /\ [][CRNext]_vars

\* ---------------------------------------------------------------- claims on the config-driven crawler

\* C4: with max_pages = m set, total_pages (the number of page records
\* appended to chunks) never exceeds m.
C4_TotalWithinMaxPages == c_max_pages # None => c_total_pages <= c_max_pages

\* The host is the domain of a start URL or a subdomain of it.
CInCrawlDomain(u) ==
    \E k \in 1..Len(c_base_urls) :
        \/ CNetloc(u) = CNetloc(c_base_urls[k])
        \/ EndsWith(CNetloc(u), <<".">> \o CNetloc(c_base_urls[k]))

\* C6: no URL whose host is neither the start URL's domain nor a subdomain of
\* it is ever fetched.
C6_FetchesStayInDomain == \A u \in CUrls : c_fetches[u] > 0 => CInCrawlDomain(u)

\* C7: with max_depth = 1, the one start URL S whose page links to A and B,
\* pages A and B without links and all fetches succeeding, the crawl emits
\* exactly 3 pages.
C7_SeedAndChildrenEmitted ==
    ( /\ c_pc = "done"
      /\ c_max_depth = 1
      /\ c_max_pages = None
      /\ c_base_urls = <<"S">>
      /\ c_asScenario )
    => c_total_pages = 3

\* The number of page records in the chunks handed to Reporting.save_chunk.
RECURSIVE CPagesSaved(_)
CPagesSaved(files) ==
    IF files = <<>> THEN 0 ELSE Len(Head(files).pages) + CPagesSaved(Tail(files))

\* C12: the chunks handed to Reporting.save_chunk during one call of crawl carry
\* the numbers 1, 2, 3, ... in order (no gap, no number twice), and when crawl
\* returns the sizes of the chunks sum to total_pages (every emitted page is
\* in exactly one chunk).
C12_ChunkNumbersGapFree ==
    /\ \A i \in 1..Len(c_files) : c_files[i].number = i
    /\ c_pc = "done" => CPagesSaved(c_files) = c_total_pages

\* The path of u matches a Disallow prefix of the policy and no Allow prefix.
CDisallowedByPolicy(u) ==
    /\ \E k \in 1..Len(CPolicyDisallow) : StartsWith(CPath(u), CPolicyDisallow[k])
    /\ ~\E k \in 1..Len(CPolicyAllow) : StartsWith(CPath(u), CPolicyAllow[k])

\* C13: with respect_robots on, a URL whose path matches a Disallow prefix of
\* its domain's robots policy and no Allow prefix is never fetched, be it a
\* start URL or a discovered link.
C13_DisallowedNeverFetched ==
    c_respect_robots
        => \A u \in CUrls : (c_robots[CNetloc(u)] = "rules" /\ CDisallowedByPolicy(u))
                                => c_fetches[u] = 0

\* C15: with respect_robots on and a robots policy that gives the crawl-delay
\* d, two consecutive fetches sent to one domain start at least d apart.
C15_CrawlDelayKept ==
    c_respect_robots
        => \A d \in CNetlocs : c_robots[d] = "rules"
                                => (c_min_gap[d] = None \/ c_min_gap[d] >= CCrawlDelay)

\* The process_page_async runs whose fetch is in flight.
CInFlight == {i \in 1..Len(c_tasks) : c_tasks[i].pc = "fetch"}

\* C16: at every moment at most `concurrency` process_page_async runs (and
\* HTTP fetches) are in flight.
C16_AtMostConcurrencyInFlight == Cardinality(CInFlight) <= c_concurrency

\* The URLs of the page records appended to current_chunk so far: those of the
\* chunks handed to Reporting.save_chunk and those still in the buffer.
CEmitted ==
    {c_current_chunk[k] : k \in 1..Len(c_current_chunk)}
        \cup UNION {{c_files[f].pages[k] : k \in 1..Len(c_files[f].pages)} : f \in 1..Len(c_files)}

\* C22: a failure while one page is processed never ends the crawl: when crawl
\* has returned, without a page budget and without a failed fetch, the page of
\* every valid start URL has been recorded, whatever happened to the tasks of
\* the other pages.
C22_PageFailureDoesNotEndCrawl ==
    (c_pc = "done" /\ c_asScenario /\ c_max_pages = None /\ c_max_depth >= CStartDepth)
        => \A k \in 1..Len(c_base_urls) :
                CStartValid(c_base_urls[k]) => c_base_urls[k] \in CEmitted

\* The URLs of the page records in the chunks handed to Reporting.save_chunk.
CSavedUrls ==
    UNION {{c_files[f].pages[k] : k \in 1..Len(c_files[f].pages)} : f \in 1..Len(c_files)}

\* C25: when crawl has returned, whether crawl_async ended normally or with an
\* exception that crawl's handler caught, every page record appended to
\* current_chunk has been handed to Reporting.save_chunk.
C25_BufferFlushedAtReturn ==
    c_pc = "done" => CEmitted \subseteq CSavedUrls

\* ================================================================
\* The sequential WebCrawlers: src/crawler2.py (a list of URLs to visit) and
\* src/src/crawler.py (recursive crawl_page).  Both classes have the same
\* chunk fields and the same save_chunk.
\* ================================================================

\* The URLs of the crawled site that pass is_valid_url; "S" is base_url.
SUrls == {"S", "A", "B", "D", "E"}

s_base_url == "S"

\* The link lists extract_links can return for a page.
SLinkLists == SeqsUpTo(SUrls, SMaxLinks)

\* WebCrawler.__init__ of either class; crawl of crawler2.py has set
\* urls_to_visit = [base_url], crawl of src/src/crawler.py is about to call
\* crawl_page(base_url, 0).
SInit ==
    /\ s_variant \in {"crawler2", "recursive"}
    /\ s_pc = "run"
    /\ s_chunk_size \in 1..MaxChunkSize
    /\ s_max_depth \in IF s_variant = "recursive" THEN 0..SMaxDepthCfg ELSE {0}
    /\ s_max_pages \in IF s_variant = "crawler2" THEN {None} \cup 1..SMaxPagesCfg ELSE {None}
    /\ s_visited_urls = {}
    /\ s_urls_to_visit = IF s_variant = "crawler2" THEN <<s_base_url>> ELSE <<>>
    /\ s_stack = IF s_variant = "recursive"
                 THEN <<[links |-> <<s_base_url>>, depth |-> 0]>> ELSE <<>>
    /\ s_current_chunk = <<>>
    /\ s_chunk_counter = 1
    /\ s_total_pages = 0
    /\ s_files = <<>>
    /\ s_emitted = <<>>
    \* ModernWebCrawler is not running
    /\ m_pc = "off"
    /\ m_helpers = FALSE
    /\ m_max_depth = 0
    /\ m_max_pages = 0
    /\ m_concurrent_requests = 0
    /\ m_visited_urls = {}
    /\ m_url_queue = <<>>
    /\ m_tasks = <<>>
    /\ m_db = [u \in MUrls |-> NoHash]
    /\ m_fetches = [u \in MUrls |-> 0]
    /\ m_dupLinks = {}
    \* the thread-pool crawler is not running
    /\ p_main = "off"
    /\ p_threads = 0
    /\ p_max_depth = 0
    /\ p_chunk_size = 0
    /\ p_visited_urls = {}
    /\ p_queue = <<>>
    /\ p_work = <<>>
    /\ p_workers = <<>>
    /\ p_current_chunk = <<>>
    /\ p_chunk_counter = 0
    /\ p_total_pages = 0
    /\ p_files = <<>>
    /\ p_fetches = <<>>
    /\ p_appended = <<>>
    \* the config-driven crawler is not running
    /\ c_pc = "off"
    /\ c_base_urls = <<>>
    /\ c_idx = 0
    /\ c_max_depth = 0
    /\ c_max_pages = 0
    /\ c_chunk_size = 0
    /\ c_visited_urls = {}
    /\ c_tasks = <<>>
    /\ c_current_chunk = <<>>
    /\ c_chunk_counter = 0
    /\ c_total_pages = 0
    /\ c_files = <<>>
    /\ c_fetches = <<>>
    /\ c_asScenario = FALSE
    /\ c_concurrency = 0
    /\ c_respect_robots = FALSE
    /\ c_robots = <<>>
    /\ c_robots_parsers = {}
    /\ c_clock = 0
    /\ c_last_start = <<>>
    /\ c_min_gap = <<>>
    \* the RateLimiter is not in use
    /\ r_delay = 0
    /\ r_clock = 0
    /\ r_last_request = 0
    /\ r_locked = FALSE
    /\ r_waiters = <<>>
    /\ r_callers = <<>>
    /\ r_last_return = 0
    /\ r_min_gap = 0
    \* AsyncWebCrawler is not running
    /\ a_pc = "off"
    /\ a_max_concurrent = 0
    /\ a_visited_urls = {}
    /\ a_urls_to_visit = <<>>
    /\ a_tasks = <<>>
    /\ a_sem = 0
    /\ a_sem_waiters = <<>>
    /\ a_pages = <<>>
    /\ a_fetches = <<>>
    \* any site for ModernWebCrawler, no dequeue recorded
    /\ m_site = "any"
    /\ m_last_depth = -1
    /\ m_decreased = FALSE
    \* no retries configured, no error registered
    /\ c_retry_attempts = 0
    /\ c_errors = {}
    \* no function is called on its own
    /\ f_fn = "none"
    /\ f_pc = "off"
    /\ f_args = <<>>
    /\ f_result = FALSE
    \* no link of a page is recorded
    /\ s_page_links = {}
    /\ s_fetch_failed = FALSE
    \* get_api_content is not called
    /\ g_pc = "off"
    /\ g_rate_limit_remaining = 0
    /\ g_requests = 0
    /\ g_pauses = 0
    /\ g_result = "none"
    \* no page record is built
    /\ c_links_of = {}
    /\ c_extracted = {}
    /\ c_page_task = {}
    /\ c_written = {}

\* `if len(self.current_chunk) >= self.chunk_size`
SChunkFullStrict(chunk, k) == Len(chunk) > k
SChunkFull(chunk, k) == Len(chunk) >= k

\* The page of `url` is emitted: current_chunk.append(page_data),
\* total_pages += 1, and save_chunk when the chunk has reached chunk_size
\* (save_chunk writes the file of chunk number chunk_counter, clears the
\* buffer and adds 1 to chunk_counter; it does nothing for an empty buffer).
SEmit(url) ==
    LET chunk == Append(s_current_chunk, url)
        full == SChunkFull(chunk, s_chunk_size) /\ chunk # <<>>
    IN /\ s_total_pages' = s_total_pages + 1
       /\ s_emitted' = Append(s_emitted, url)
       /\ s_current_chunk' = IF full THEN <<>> ELSE chunk
       /\ s_files' = IF full THEN Append(s_files, [number |-> s_chunk_counter, pages |-> chunk])
                     ELSE s_files
       /\ s_chunk_counter' = IF full THEN s_chunk_counter + 1 ELSE s_chunk_counter

\* `if self.current_chunk: self.save_chunk(timestamp)` at the end of crawl.
SFinalSaveAlways ==
    /\ s_files' = Append(s_files, [number |-> s_chunk_counter, pages |-> s_current_chunk])
    /\ s_current_chunk' = <<>>
    /\ s_chunk_counter' = s_chunk_counter + 1
SFinalSave ==
    /\ s_files' = IF s_current_chunk # <<>>
                  THEN Append(s_files, [number |-> s_chunk_counter, pages |-> s_current_chunk])
                  ELSE s_files
    /\ s_current_chunk' = <<>>
    /\ s_chunk_counter' = IF s_current_chunk # <<>> THEN s_chunk_counter + 1 ELSE s_chunk_counter

\* The test of crawl's while loop in crawler2.py.
S2KeepCrawlingNoBudget(to_visit, max_pages, total) == to_visit # <<>>
S2KeepCrawling(to_visit, max_pages, total) ==
    to_visit # <<>> /\ (max_pages = None \/ total < max_pages)

\* [url for url in links if url not in self.visited_urls]
RECURSIVE SNotVisited(_, _)
SNotVisited(ls, visited) ==
    IF ls = <<>> THEN <<>>
    ELSE IF Head(ls) \notin visited THEN <<Head(ls)>> \o SNotVisited(Tail(ls), visited)
         ELSE SNotVisited(Tail(ls), visited)

\* crawler2.py crawl: one iteration of the while loop for a URL that is in
\* visited_urls already.
S2Skip ==
    /\ s_variant = "crawler2" /\ s_pc = "run"
    /\ S2KeepCrawling(s_urls_to_visit, s_max_pages, s_total_pages)
    /\ Head(s_urls_to_visit) \in s_visited_urls
    /\ s_urls_to_visit' = Tail(s_urls_to_visit)
    /\ UNCHANGED <<s_variant, s_pc, s_chunk_size, s_max_depth, s_max_pages, s_visited_urls,
                   s_stack, s_current_chunk, s_chunk_counter, s_total_pages, s_files, s_emitted>>

\* crawler2.py crawl: one iteration for a new URL whose fetch fails
\* (get_page_content returns (None, None)).
S2FetchFailed ==
    /\ s_variant = "crawler2" /\ s_pc = "run"
    /\ S2KeepCrawling(s_urls_to_visit, s_max_pages, s_total_pages)
    /\ Head(s_urls_to_visit) \notin s_visited_urls
    /\ s_visited_urls' = s_visited_urls \cup {Head(s_urls_to_visit)}
    /\ s_urls_to_visit' = Tail(s_urls_to_visit)
    /\ UNCHANGED <<s_variant, s_pc, s_chunk_size, s_max_depth, s_max_pages,
                   s_stack, s_current_chunk, s_chunk_counter, s_total_pages, s_files, s_emitted>>

\* crawler2.py crawl: one iteration for a new URL whose page is fetched: the
\* page is emitted and its links that are not visited are appended to
\* urls_to_visit.
\* extract_links has returned the list ls.
S2FetchedWith(ls) ==
    /\ s_variant = "crawler2" /\ s_pc = "run"
    /\ S2KeepCrawling(s_urls_to_visit, s_max_pages, s_total_pages)
    /\ Head(s_urls_to_visit) \notin s_visited_urls
    /\ s_visited_urls' = s_visited_urls \cup {Head(s_urls_to_visit)}
    /\ SEmit(Head(s_urls_to_visit))
    /\ s_urls_to_visit' = Tail(s_urls_to_visit) \o SNotVisited(ls, s_visited_urls')
    /\ UNCHANGED <<s_variant, s_pc, s_chunk_size, s_max_depth, s_max_pages, s_stack>>

S2Fetched ==
    \E ls \in SLinkLists : S2FetchedWith(ls)

\* crawler2.py crawl: the loop has ended; the remaining pages are saved.
S2Finish ==
    /\ s_variant = "crawler2" /\ s_pc = "run"
    /\ ~S2KeepCrawling(s_urls_to_visit, s_max_pages, s_total_pages)
    /\ SFinalSave
    /\ s_pc' = "done"
    /\ UNCHANGED <<s_variant, s_chunk_size, s_max_depth, s_max_pages, s_visited_urls,
                   s_urls_to_visit, s_stack, s_total_pages, s_emitted>>

\* The top of s_stack is the running `for link in links` loop (for the call of
\* crawl: the one call crawl_page(base_url, 0)); depth is the depth of its links.
STop == s_stack[Len(s_stack)]
SPop == SubSeq(s_stack, 1, Len(s_stack) - 1)
SAdvance == [s_stack EXCEPT ![Len(s_stack)].links = Tail(@)]

\* `if depth > self.max_depth or current_url in self.visited_urls: return`
SRSkip(url, depth, visited, max_depth) == depth > max_depth \/ url \in visited

\* src/src/crawler.py crawl_page(link, depth) returns at once.
SRCallSkipped ==
    /\ s_variant = "recursive" /\ s_pc = "run"
    /\ s_stack # <<>> /\ STop.links # <<>>
    /\ SRSkip(Head(STop.links), STop.depth, s_visited_urls, s_max_depth)
    /\ s_stack' = SAdvance
    /\ UNCHANGED <<s_variant, s_pc, s_chunk_size, s_max_depth, s_max_pages, s_visited_urls,
                   s_urls_to_visit, s_current_chunk, s_chunk_counter, s_total_pages, s_files,
                   s_emitted>>

\* src/src/crawler.py crawl_page(link, depth): the URL is marked visited and
\* its fetch fails.
SRCallFailed ==
    /\ s_variant = "recursive" /\ s_pc = "run"
    /\ s_stack # <<>> /\ STop.links # <<>>
    /\ ~SRSkip(Head(STop.links), STop.depth, s_visited_urls, s_max_depth)
    /\ s_visited_urls' = s_visited_urls \cup {Head(STop.links)}
    /\ s_stack' = SAdvance
    /\ UNCHANGED <<s_variant, s_pc, s_chunk_size, s_max_depth, s_max_pages,
                   s_urls_to_visit, s_current_chunk, s_chunk_counter, s_total_pages, s_files,
                   s_emitted>>

\* src/src/crawler.py crawl_page(link, depth): the page is fetched and emitted,
\* and the loop over its links starts at depth + 1.
\* extract_links has returned the list ls.
SRCallFetchedWith(ls) ==
    /\ s_variant = "recursive" /\ s_pc = "run"
    /\ s_stack # <<>> /\ STop.links # <<>>
    /\ ~SRSkip(Head(STop.links), STop.depth, s_visited_urls, s_max_depth)
    /\ s_visited_urls' = s_visited_urls \cup {Head(STop.links)}
    /\ SEmit(Head(STop.links))
    /\ s_stack' = Append(SAdvance, [links |-> ls, depth |-> STop.depth + 1])
    /\ UNCHANGED <<s_variant, s_pc, s_chunk_size, s_max_depth, s_max_pages, s_urls_to_visit>>

SRCallFetched ==
    \E ls \in SLinkLists : SRCallFetchedWith(ls)

\* src/src/crawler.py crawl_page: the loop over the links has ended and
\* crawl_page returns.
SRReturn ==
    /\ s_variant = "recursive" /\ s_pc = "run"
    /\ s_stack # <<>> /\ STop.links = <<>>
    /\ s_stack' = SPop
    /\ UNCHANGED <<s_variant, s_pc, s_chunk_size, s_max_depth, s_max_pages, s_visited_urls,
                   s_urls_to_visit, s_current_chunk, s_chunk_counter, s_total_pages, s_files,
                   s_emitted>>

\* src/src/crawler.py crawl: crawl_page(base_url, 0) has returned; the
\* remaining pages are saved.
SRFinish ==
    /\ s_variant = "recursive" /\ s_pc = "run"
    /\ s_stack = <<>>
    /\ SFinalSave
    /\ s_pc' = "done"
    /\ UNCHANGED <<s_variant, s_chunk_size, s_max_depth, s_max_pages, s_visited_urls,
                   s_urls_to_visit, s_stack, s_total_pages, s_emitted>>

SNext ==
    \/ S2Skip /\ UNCHANGED notSeq
    \/ S2FetchFailed /\ UNCHANGED notSeq
    \/ S2Fetched /\ UNCHANGED notSeq
    \/ S2Finish /\ UNCHANGED notSeq
    \/ SRCallSkipped /\ UNCHANGED notSeq
    \/ SRCallFailed /\ UNCHANGED notSeq
    \/ SRCallFetched /\ UNCHANGED notSeq
    \/ SRReturn /\ UNCHANGED notSeq
    \/ SRFinish /\ UNCHANGED notSeq

SpecSeq == SInit /\ [][SNext]_vars

\* ---------------------------------------------------------------- claims on the sequential crawlers

RECURSIVE SPagesOf(_)
SPagesOf(files) == IF files = <<>> THEN <<>> ELSE Head(files).pages \o SPagesOf(Tail(files))

\* C10: for chunk_size = k and n pages emitted, the chunks saved when crawl
\* returns have sizes k, ..., k, r with r = n mod k (no remainder chunk when
\* r = 0), and every emitted page is in exactly one chunk (the chunks, in
\* order, are the emitted pages, so the sizes sum to n); k = 2, n = 5 gives 2, 2, 1.
C10_ChunkSizes ==
    s_pc = "done" =>
        LET k == s_chunk_size
            n == s_total_pages
        IN /\ Len(s_emitted) = n
           /\ \A i, j \in 1..n : i # j => s_emitted[i] # s_emitted[j]
           /\ SPagesOf(s_files) = s_emitted
           /\ Len(s_files) = (n + k - 1) \div k
           /\ \A i \in 1..Len(s_files) :
                Len(s_files[i].pages) = IF i <= n \div k THEN k ELSE n % k

C10_Witness ==
    /\ s_pc = "done"
    /\ s_chunk_size = 2
    /\ s_total_pages = 5
    /\ Len(s_files) = 3
    /\ Len(s_files[1].pages) = 2 /\ Len(s_files[2].pages) = 2 /\ Len(s_files[3].pages) = 1

\* ================================================================
\* RateLimiter of src/crawler.py
\* ================================================================

\* The tasks that call acquire().
RMaxCallers == 2
\* Largest delay (1 / requests_per_second), in clock ticks.
RMaxDelay == 2
\* The longest time a run of the limiter is observed for.
RMaxClock == 4

RCallers == 1..RMaxCallers

\* RateLimiter.__init__: delay = 1 / requests_per_second, last_request = 0, a
\* free lock.  r_clock is time.time().
RInit ==
    /\ r_delay \in 1..RMaxDelay
    /\ r_clock \in 0..RMaxDelay
    /\ r_last_request = 0
    /\ r_locked = FALSE
    /\ r_waiters = <<>>
    /\ r_callers = [t \in RCallers |-> [pc |-> "idle", wake |-> 0]]
    /\ r_last_return = None
    /\ r_min_gap = None
    \* ModernWebCrawler is not running
    /\ m_pc = "off"
    /\ m_helpers = FALSE
    /\ m_max_depth = 0
    /\ m_max_pages = 0
    /\ m_concurrent_requests = 0
    /\ m_visited_urls = {}
    /\ m_url_queue = <<>>
    /\ m_tasks = <<>>
    /\ m_db = [u \in MUrls |-> NoHash]
    /\ m_fetches = [u \in MUrls |-> 0]
    /\ m_dupLinks = {}
    \* the thread-pool crawler is not running
    /\ p_main = "off"
    /\ p_threads = 0
    /\ p_max_depth = 0
    /\ p_chunk_size = 0
    /\ p_visited_urls = {}
    /\ p_queue = <<>>
    /\ p_work = <<>>
    /\ p_workers = <<>>
    /\ p_current_chunk = <<>>
    /\ p_chunk_counter = 0
    /\ p_total_pages = 0
    /\ p_files = <<>>
    /\ p_fetches = <<>>
    /\ p_appended = <<>>
    \* the config-driven crawler is not running
    /\ c_pc = "off"
    /\ c_base_urls = <<>>
    /\ c_idx = 0
    /\ c_max_depth = 0
    /\ c_max_pages = 0
    /\ c_chunk_size = 0
    /\ c_visited_urls = {}
    /\ c_tasks = <<>>
    /\ c_current_chunk = <<>>
    /\ c_chunk_counter = 0
    /\ c_total_pages = 0
    /\ c_files = <<>>
    /\ c_fetches = <<>>
    /\ c_asScenario = FALSE
    /\ c_concurrency = 0
    /\ c_respect_robots = FALSE
    /\ c_robots = <<>>
    /\ c_robots_parsers = {}
    /\ c_clock = 0
    /\ c_last_start = <<>>
    /\ c_min_gap = <<>>
    \* the sequential crawlers are not running
    /\ s_variant = "off"
    /\ s_pc = "off"
    /\ s_chunk_size = 0
    /\ s_max_depth = 0
    /\ s_max_pages = 0
    /\ s_visited_urls = {}
    /\ s_urls_to_visit = <<>>
    /\ s_stack = <<>>
    /\ s_current_chunk = <<>>
    /\ s_chunk_counter = 0
    /\ s_total_pages = 0
    /\ s_files = <<>>
    /\ s_emitted = <<>>
    \* AsyncWebCrawler is not running
    /\ a_pc = "off"
    /\ a_max_concurrent = 0
    /\ a_visited_urls = {}
    /\ a_urls_to_visit = <<>>
    /\ a_tasks = <<>>
    /\ a_sem = 0
    /\ a_sem_waiters = <<>>
    /\ a_pages = <<>>
    /\ a_fetches = <<>>
    \* any site for ModernWebCrawler, no dequeue recorded
    /\ m_site = "any"
    /\ m_last_depth = -1
    /\ m_decreased = FALSE
    \* no retries configured, no error registered
    /\ c_retry_attempts = 0
    /\ c_errors = {}
    \* no function is called on its own
    /\ f_fn = "none"
    /\ f_pc = "off"
    /\ f_args = <<>>
    /\ f_result = FALSE
    \* no link of a page is recorded
    /\ s_page_links = {}
    /\ s_fetch_failed = FALSE
    \* get_api_content is not called
    /\ g_pc = "off"
    /\ g_rate_limit_remaining = 0
    /\ g_requests = 0
    /\ g_pauses = 0
    /\ g_result = "none"
    \* no page record is built
    /\ c_links_of = {}
    /\ c_extracted = {}
    /\ c_page_task = {}
    /\ c_written = {}

\* asyncio.Lock.acquire takes the lock at once.
RLockFreeIgnored(locked, waiters) == TRUE
RLockFree(locked, waiters) == ~locked /\ waiters = <<>>

\* The time between the latest return of acquire and a return now, folded
\* into the smallest such time seen.
RMinGap(min_gap, last, now) ==
    IF last = None THEN min_gap
    ELSE IF min_gap = None \/ now - last < min_gap THEN now - last ELSE min_gap

\* acquire: `self.last_request = time.time()`, the lock is released and
\* acquire returns.
RReturn(t) ==
    /\ r_last_request' = r_clock
    /\ r_locked' = FALSE
    /\ r_last_return' = r_clock
    /\ r_min_gap' = RMinGap(r_min_gap, r_last_return, r_clock)
    /\ r_callers' = [r_callers EXCEPT ![t] = [pc |-> "idle", wake |-> 0]]

\* acquire with the lock held: now = time.time(), time_passed = now -
\* last_request; `await asyncio.sleep(self.delay - time_passed)` when
\* time_passed < delay, otherwise the return.
RBody(t) ==
    LET now == r_clock
        time_passed == now - r_last_request
    IN IF time_passed < r_delay
       THEN /\ r_callers' = [r_callers EXCEPT
                                ![t] = [pc |-> "sleep", wake |-> now + (r_delay - time_passed)]]
            /\ r_locked' = TRUE
            /\ UNCHANGED <<r_last_request, r_last_return, r_min_gap>>
       ELSE RReturn(t)

\* A task calls acquire(): `async with self._lock` takes the free lock and the
\* body runs up to its suspension, or the task waits for the lock.
RCall(t) ==
    /\ r_callers[t].pc = "idle"
    /\ IF RLockFree(r_locked, r_waiters)
       THEN RBody(t) /\ UNCHANGED r_waiters
       ELSE /\ r_callers' = [r_callers EXCEPT ![t].pc = "waitlock"]
            /\ r_waiters' = Append(r_waiters, t)
            /\ UNCHANGED <<r_locked, r_last_request, r_last_return, r_min_gap>>
    /\ UNCHANGED <<r_delay, r_clock>>

\* The lock was released: its first waiter takes it and runs the body.
RLockGranted(t) ==
    /\ r_callers[t].pc = "waitlock"
    /\ ~r_locked
    /\ r_waiters # <<>> /\ Head(r_waiters) = t
    /\ r_waiters' = Tail(r_waiters)
    /\ RBody(t)
    /\ UNCHANGED <<r_delay, r_clock>>

\* asyncio.sleep has lasted at least the time asked for: the task goes on.
RWake(t) ==
    /\ r_callers[t].pc = "sleep"
    /\ r_clock >= r_callers[t].wake
    /\ RReturn(t)
    /\ UNCHANGED <<r_delay, r_clock, r_waiters>>

\* Time passes.
RTick ==
    /\ r_clock < RMaxClock
    /\ r_clock' = r_clock + 1
    /\ UNCHANGED <<r_delay, r_last_request, r_locked, r_waiters, r_callers, r_last_return,
                   r_min_gap>>

RNext ==
    \/ \E t \in RCallers : RCall(t) /\ UNCHANGED notLimiter
    \/ \E t \in RCallers : RLockGranted(t) /\ UNCHANGED notLimiter
    \/ \E t \in RCallers : RWake(t) /\ UNCHANGED notLimiter
    \/ RTick /\ UNCHANGED notLimiter

SpecLimiter == RInit /\ [][RNext]_vars

\* C14: any two successive returns from acquire() are at least delay = 1/R
\* apart on the clock the limiter reads, for any tasks calling it concurrently.
C14_ReturnsSpacedByDelay == r_min_gap = None \/ r_min_gap >= r_delay

\* Two tasks called acquire() together: one waited for the lock while the
\* other slept, and the second return came exactly delay after the first.
C14_Witness ==
    /\ r_min_gap = r_delay
    /\ r_last_return # None
    /\ \E t \in RCallers : r_callers[t].pc = "waitlock"
    /\ \E t \in RCallers : r_callers[t].pc = "sleep"

\* ================================================================
\* AsyncWebCrawler of src/web_crawler2.py
\* ================================================================

AUrls == {"S", "A", "B"}

a_base_url == "S"

\* The link lists extract_links can return for a page.
ALinkLists == SeqsUpTo(AUrls, MaxLinks)

\* AsyncWebCrawler.__init__ and the start of crawl: urls_to_visit = [base_url],
\* a semaphore of max_concurrent, the session is open.
AInit ==
    /\ a_pc = "loop"
    /\ a_max_concurrent \in 1..MaxConcurrency
    /\ a_visited_urls = {}
    /\ a_urls_to_visit = <<a_base_url>>
    /\ a_tasks = <<>>
    /\ a_sem = a_max_concurrent
    /\ a_sem_waiters = <<>>
    /\ a_pages = <<>>
    /\ a_fetches = [u \in AUrls |-> 0]
    \* ModernWebCrawler is not running
    /\ m_pc = "off"
    /\ m_helpers = FALSE
    /\ m_max_depth = 0
    /\ m_max_pages = 0
    /\ m_concurrent_requests = 0
    /\ m_visited_urls = {}
    /\ m_url_queue = <<>>
    /\ m_tasks = <<>>
    /\ m_db = [u \in MUrls |-> NoHash]
    /\ m_fetches = [u \in MUrls |-> 0]
    /\ m_dupLinks = {}
    \* the thread-pool crawler is not running
    /\ p_main = "off"
    /\ p_threads = 0
    /\ p_max_depth = 0
    /\ p_chunk_size = 0
    /\ p_visited_urls = {}
    /\ p_queue = <<>>
    /\ p_work = <<>>
    /\ p_workers = <<>>
    /\ p_current_chunk = <<>>
    /\ p_chunk_counter = 0
    /\ p_total_pages = 0
    /\ p_files = <<>>
    /\ p_fetches = <<>>
    /\ p_appended = <<>>
    \* the config-driven crawler is not running
    /\ c_pc = "off"
    /\ c_base_urls = <<>>
    /\ c_idx = 0
    /\ c_max_depth = 0
    /\ c_max_pages = 0
    /\ c_chunk_size = 0
    /\ c_visited_urls = {}
    /\ c_tasks = <<>>
    /\ c_current_chunk = <<>>
    /\ c_chunk_counter = 0
    /\ c_total_pages = 0
    /\ c_files = <<>>
    /\ c_fetches = <<>>
    /\ c_asScenario = FALSE
    /\ c_concurrency = 0
    /\ c_respect_robots = FALSE
    /\ c_robots = <<>>
    /\ c_robots_parsers = {}
    /\ c_clock = 0
    /\ c_last_start = <<>>
    /\ c_min_gap = <<>>
    \* the sequential crawlers are not running
    /\ s_variant = "off"
    /\ s_pc = "off"
    /\ s_chunk_size = 0
    /\ s_max_depth = 0
    /\ s_max_pages = 0
    /\ s_visited_urls = {}
    /\ s_urls_to_visit = <<>>
    /\ s_stack = <<>>
    /\ s_current_chunk = <<>>
    /\ s_chunk_counter = 0
    /\ s_total_pages = 0
    /\ s_files = <<>>
    /\ s_emitted = <<>>
    \* the RateLimiter is not in use
    /\ r_delay = 0
    /\ r_clock = 0
    /\ r_last_request = 0
    /\ r_locked = FALSE
    /\ r_waiters = <<>>
    /\ r_callers = <<>>
    /\ r_last_return = 0
    /\ r_min_gap = 0
    \* any site for ModernWebCrawler, no dequeue recorded
    /\ m_site = "any"
    /\ m_last_depth = -1
    /\ m_decreased = FALSE
    \* no retries configured, no error registered
    /\ c_retry_attempts = 0
    /\ c_errors = {}
    \* no function is called on its own
    /\ f_fn = "none"
    /\ f_pc = "off"
    /\ f_args = <<>>
    /\ f_result = FALSE
    \* no link of a page is recorded
    /\ s_page_links = {}
    /\ s_fetch_failed = FALSE
    \* get_api_content is not called
    /\ g_pc = "off"
    /\ g_rate_limit_remaining = 0
    /\ g_requests = 0
    /\ g_pauses = 0
    /\ g_result = "none"
    \* no page record is built
    /\ c_links_of = {}
    /\ c_extracted = {}
    /\ c_page_task = {}
    /\ c_written = {}

\* The coroutines crawl_page(url) for the URLs of one round.
ASpawn(urls) == [k \in 1..Len(urls) |-> [url |-> urls[k], pc |-> "new", links |-> <<>>]]

\* asyncio.Semaphore.acquire returns at once.
ASemFreeIgnored(value) == TRUE
ASemFree(value) == value > 0

\* The links of the results that are not in visited_urls, in order.
RECURSIVE ANextRound(_, _)
ANextRound(tasks, visited) ==
    IF tasks = <<>> THEN <<>>
    ELSE SelectSeq(Head(tasks).links, LAMBDA l : l \notin visited)
         \o ANextRound(Tail(tasks), visited)

\* crawl: the test of `while urls_to_visit`; one coroutine per URL is handed to
\* gather, or crawl returns.
ACrawlLoop ==
    /\ a_pc = "loop"
    /\ IF a_urls_to_visit = <<>>
       THEN a_pc' = "done" /\ UNCHANGED a_tasks
       ELSE a_pc' = "gather" /\ a_tasks' = ASpawn(a_urls_to_visit)
    /\ UNCHANGED <<a_max_concurrent, a_visited_urls, a_urls_to_visit, a_sem, a_sem_waiters,
                   a_pages, a_fetches>>

\* crawl_page up to its first suspension: a visited URL returns at once;
\* otherwise visited_urls.add(url) and get_page_content enters
\* `async with self.semaphore`: with a free semaphore session.get sends the
\* request, otherwise the task waits.  Tasks start in the order of their
\* creation.
ATaskStart(i) ==
    /\ a_pc = "gather"
    /\ a_tasks[i].pc = "new"
    /\ \A j \in 1..(i - 1) : a_tasks[j].pc # "new"
    /\ IF a_tasks[i].url \in a_visited_urls
       THEN /\ a_tasks' = [a_tasks EXCEPT ![i].pc = "done"]
            /\ UNCHANGED <<a_visited_urls, a_sem, a_sem_waiters, a_fetches>>
       ELSE /\ a_visited_urls' = a_visited_urls \cup {a_tasks[i].url}
            /\ IF ASemFree(a_sem)
               THEN /\ a_sem' = a_sem - 1
                    /\ a_fetches' = [a_fetches EXCEPT ![a_tasks[i].url] = @ + 1]
                    /\ a_tasks' = [a_tasks EXCEPT ![i].pc = "get"]
                    /\ UNCHANGED a_sem_waiters
               ELSE /\ a_sem_waiters' = Append(a_sem_waiters, i)
                    /\ a_tasks' = [a_tasks EXCEPT ![i].pc = "sem"]
                    /\ UNCHANGED <<a_sem, a_fetches>>
    /\ UNCHANGED <<a_pc, a_max_concurrent, a_urls_to_visit, a_pages>>

\* The semaphore was released: its first waiter takes it and session.get sends
\* the request.
ASemGranted(i) ==
    /\ a_pc = "gather"
    /\ a_tasks[i].pc = "sem"
    /\ a_sem_waiters # <<>> /\ Head(a_sem_waiters) = i
    /\ a_sem > 0
    /\ a_sem' = a_sem - 1
    /\ a_sem_waiters' = Tail(a_sem_waiters)
    /\ a_fetches' = [a_fetches EXCEPT ![a_tasks[i].url] = @ + 1]
    /\ a_tasks' = [a_tasks EXCEPT ![i].pc = "get"]
    /\ UNCHANGED <<a_pc, a_max_concurrent, a_visited_urls, a_urls_to_visit, a_pages>>

\* get_page_content: the request fails (ClientError, an error status, a
\* timeout): both `async with` blocks are left, the semaphore is released and
\* crawl_page returns [].
AFetchFailed(i) ==
    /\ a_pc = "gather"
    /\ a_tasks[i].pc \in {"get", "text"}
    /\ a_sem' = a_sem + 1
    /\ a_tasks' = [a_tasks EXCEPT ![i].pc = "done"]
    /\ UNCHANGED <<a_pc, a_max_concurrent, a_visited_urls, a_urls_to_visit, a_sem_waiters,
                   a_pages, a_fetches>>

\* get_page_content: the response has arrived with a good status;
\* `await response.text()`.
AResponse(i) ==
    /\ a_pc = "gather"
    /\ a_tasks[i].pc = "get"
    /\ a_tasks' = [a_tasks EXCEPT ![i].pc = "text"]
    /\ UNCHANGED <<a_pc, a_max_concurrent, a_visited_urls, a_urls_to_visit, a_sem,
                   a_sem_waiters, a_pages, a_fetches>>

\* get_page_content returns the page: the semaphore is released; crawl_page
\* extracts the links, appends the page to pages_data and returns the links.
AReadText(i) ==
    /\ a_pc = "gather"
    /\ a_tasks[i].pc = "text"
    /\ \E ls \in ALinkLists :
         a_tasks' = [a_tasks EXCEPT ![i].pc = "done", ![i].links = ls]
    /\ a_sem' = a_sem + 1
    /\ a_pages' = Append(a_pages, a_tasks[i].url)
    /\ UNCHANGED <<a_pc, a_max_concurrent, a_visited_urls, a_urls_to_visit, a_sem_waiters,
                   a_fetches>>

\* crawl: gather returns; urls_to_visit becomes the links of the results that
\* are not in visited_urls.
AGatherDone ==
    /\ a_pc = "gather"
    /\ \A i \in 1..Len(a_tasks) : a_tasks[i].pc = "done"
    /\ a_urls_to_visit' = ANextRound(a_tasks, a_visited_urls)
    /\ a_tasks' = <<>>
    /\ a_pc' = "loop"
    /\ UNCHANGED <<a_max_concurrent, a_visited_urls, a_sem, a_sem_waiters, a_pages, a_fetches>>

ANext ==
    \/ ACrawlLoop /\ UNCHANGED notAsync
    \/ \E i \in 1..Len(a_tasks) : ATaskStart(i) /\ UNCHANGED notAsync
    \/ \E i \in 1..Len(a_tasks) : ASemGranted(i) /\ UNCHANGED notAsync
    \/ \E i \in 1..Len(a_tasks) : AFetchFailed(i) /\ UNCHANGED notAsync
    \/ \E i \in 1..Len(a_tasks) : AResponse(i) /\ UNCHANGED notAsync
    \/ \E i \in 1..Len(a_tasks) : AReadText(i) /\ UNCHANGED notAsync
    \/ AGatherDone /\ UNCHANGED notAsync

SpecAsync == AInit /\ [][ANext]_vars

\* ----------------------------------------------------------------
\* ModernWebCrawler and AsyncWebCrawler, either one running
\* ----------------------------------------------------------------

FLInit == MInit \/ AInit

FLNext == MNext \/ ANext

SpecFetchLimit == FLInit /\ [][FLNext]_vars

\* The calls inside the semaphore-guarded block of get_page_content.
AInFlight == {i \in 1..Len(a_tasks) : a_tasks[i].pc \in {"get", "text"}}

\* C17: the fetches in flight never exceed the configured limit: at most
\* concurrent_requests process_url tasks of ModernWebCrawler exist, and at
\* most max_concurrent calls of AsyncWebCrawler are inside the
\* semaphore-guarded session.get.
C17_FetchesInFlightBounded ==
    /\ m_pc # "off" => Len(m_tasks) <= m_concurrent_requests
    /\ a_pc # "off" => Cardinality(AInFlight) <= a_max_concurrent

\* The limit is reached in AsyncWebCrawler and a call waits for the semaphore.
C17_Witness ==
    /\ a_pc = "gather"
    /\ Cardinality(AInFlight) = a_max_concurrent
    /\ \E i \in 1..Len(a_tasks) : a_tasks[i].pc = "sem"

\* ----------------------------------------------------------------
\* The depth-limited crawlers, any one of them running: ModernWebCrawler,
\* the thread-pool crawler, the sequential crawlers
\* ----------------------------------------------------------------

DLInit == MInit \/ PInit \/ SInit

DLNext == MNext \/ PNext \/ SNext

SpecDepthLimit == DLInit /\ [][DLNext]_vars

\* The crawl_url calls of the thread pool that have passed the skip test.
PPastCheck == {w \in DOMAIN p_workers : p_workers[w].pc \in {"add", "fetch", "append", "count", "put"}}

\* C18: in the depth-limited crawlers no fetch is issued and no page is
\* emitted for an entry whose depth exceeds max_depth: every process_url task
\* of ModernWebCrawler and every crawl_url call of the thread pool that has
\* passed the skip test has depth <= max_depth, and every step of the
\* recursive crawler that claims a URL (and then fetches it) is at a depth
\* <= max_depth.
C18_DepthWithinMaxDepth ==
    /\ [](\A i \in 1..Len(m_tasks) : m_tasks[i].depth <= m_max_depth)
    /\ [](\A w \in PPastCheck : p_workers[w].depth <= p_max_depth)
    /\ [][(s_variant = "recursive" /\ s_visited_urls' # s_visited_urls)
            => STop.depth <= s_max_depth]_vars

\* A crawl_url call of the thread pool is at its skip test with an unvisited
\* URL whose depth exceeds max_depth.
C18_Witness ==
    \E w \in DOMAIN p_workers :
        /\ p_workers[w].pc = "check"
        /\ p_workers[w].depth > p_max_depth
        /\ p_workers[w].url \notin p_visited_urls

\* ----------------------------------------------------------------
\* The crawlers with a frontier list, either one running: ModernWebCrawler,
\* the sequential crawlers
\* ----------------------------------------------------------------

FRInit == MInit \/ SInit

FRNext == MNext \/ SNext

SpecFrontier == FRInit /\ [][FRNext]_vars

\* C20: a child URL is enqueued only if it is neither claimed nor already
\* queued: the queue of ModernWebCrawler (with a page parser that returns each
\* page's links) and urls_to_visit of crawler2.py hold each URL at most once.
C20_FrontierHoldsEachUrlOnce ==
    /\ m_helpers => \A i, j \in 1..Len(m_url_queue) :
                        i # j => m_url_queue[i][1] # m_url_queue[j][1]
    /\ s_variant = "crawler2" => \A i, j \in 1..Len(s_urls_to_visit) :
                                     i # j => s_urls_to_visit[i] # s_urls_to_visit[j]

\* ----------------------------------------------------------------
\* ModernWebCrawler on the site of six pages, with the record of its dequeues
\* ----------------------------------------------------------------

\* Largest max_pages on the site of six pages.
MBMaxPagesCfg == 6

\* ModernWebCrawler.__init__ with a page parser, on the site of six pages.
MBInit ==
    /\ m_pc = "init"
    /\ m_helpers = TRUE
    /\ m_max_depth \in 0..MaxDepthCfg
    /\ m_max_pages \in 1..MBMaxPagesCfg
    /\ m_concurrent_requests \in 1..MaxConcurrency
    /\ m_visited_urls = {}
    /\ m_url_queue = <<>>
    /\ m_tasks = <<>>
    /\ m_db = [u \in MTreeUrls |-> NoHash]
    /\ m_fetches = [u \in MTreeUrls |-> 0]
    /\ m_dupLinks = {}
    \* the thread-pool crawler is not running
    /\ p_main = "off"
    /\ p_threads = 0
    /\ p_max_depth = 0
    /\ p_chunk_size = 0
    /\ p_visited_urls = {}
    /\ p_queue = <<>>
    /\ p_work = <<>>
    /\ p_workers = <<>>
    /\ p_current_chunk = <<>>
    /\ p_chunk_counter = 0
    /\ p_total_pages = 0
    /\ p_files = <<>>
    /\ p_fetches = <<>>
    /\ p_appended = <<>>
    \* the config-driven crawler is not running
    /\ c_pc = "off"
    /\ c_base_urls = <<>>
    /\ c_idx = 0
    /\ c_max_depth = 0
    /\ c_max_pages = 0
    /\ c_chunk_size = 0
    /\ c_visited_urls = {}
    /\ c_tasks = <<>>
    /\ c_current_chunk = <<>>
    /\ c_chunk_counter = 0
    /\ c_total_pages = 0
    /\ c_files = <<>>
    /\ c_fetches = <<>>
    /\ c_asScenario = FALSE
    /\ c_concurrency = 0
    /\ c_respect_robots = FALSE
    /\ c_robots = <<>>
    /\ c_robots_parsers = {}
    /\ c_clock = 0
    /\ c_last_start = <<>>
    /\ c_min_gap = <<>>
    \* the sequential crawlers are not running
    /\ s_variant = "off"
    /\ s_pc = "off"
    /\ s_chunk_size = 0
    /\ s_max_depth = 0
    /\ s_max_pages = 0
    /\ s_visited_urls = {}
    /\ s_urls_to_visit = <<>>
    /\ s_stack = <<>>
    /\ s_current_chunk = <<>>
    /\ s_chunk_counter = 0
    /\ s_total_pages = 0
    /\ s_files = <<>>
    /\ s_emitted = <<>>
    \* the RateLimiter is not in use
    /\ r_delay = 0
    /\ r_clock = 0
    /\ r_last_request = 0
    /\ r_locked = FALSE
    /\ r_waiters = <<>>
    /\ r_callers = <<>>
    /\ r_last_return = 0
    /\ r_min_gap = 0
    \* AsyncWebCrawler is not running
    /\ a_pc = "off"
    /\ a_max_concurrent = 0
    /\ a_visited_urls = {}
    /\ a_urls_to_visit = <<>>
    /\ a_tasks = <<>>
    /\ a_sem = 0
    /\ a_sem_waiters = <<>>
    /\ a_pages = <<>>
    /\ a_fetches = <<>>
    \* the site of six pages, no dequeue yet
    /\ m_site = "tree"
    /\ m_last_depth = None
    /\ m_decreased = FALSE
    \* no retries configured, no error registered
    /\ c_retry_attempts = 0
    /\ c_errors = {}
    \* no function is called on its own
    /\ f_fn = "none"
    /\ f_pc = "off"
    /\ f_args = <<>>
    /\ f_result = FALSE
    \* no link of a page is recorded
    /\ s_page_links = {}
    /\ s_fetch_failed = FALSE
    \* get_api_content is not called
    /\ g_pc = "off"
    /\ g_rate_limit_remaining = 0
    /\ g_requests = 0
    /\ g_pauses = 0
    /\ g_result = "none"
    \* no page record is built
    /\ c_links_of = {}
    /\ c_extracted = {}
    /\ c_page_task = {}
    /\ c_written = {}

\* crawl's popleft, recorded: the depth of the entry, and whether it is below
\* the depth of the entry dequeued before.
MBDequeue ==
    /\ MDequeue
    /\ m_last_depth' = Head(m_url_queue)[2]
    /\ m_decreased' = (m_decreased \/ (m_last_depth # None /\ Head(m_url_queue)[2] < m_last_depth))
    /\ UNCHANGED m_site

MBNext ==
    \/ MCrawlStart /\ UNCHANGED <<notModernOrder, orderVars>>
    \/ MOuterTest /\ UNCHANGED <<notModernOrder, orderVars>>
    \/ MBDequeue /\ UNCHANGED notModernOrder
    \/ MInnerExit /\ UNCHANGED <<notModernOrder, orderVars>>
    \/ MGatherDone /\ UNCHANGED <<notModernOrder, orderVars>>
    \/ \E i \in 1..Len(m_tasks) : MProcessUrlStart(i) /\ UNCHANGED <<notModernOrder, orderVars>>
    \/ \E i \in 1..Len(m_tasks) : MSendRequest(i) /\ UNCHANGED <<notModernOrder, orderVars>>
    \/ \E i \in 1..Len(m_tasks) : MResponse(i) /\ UNCHANGED <<notModernOrder, orderVars>>
    \/ \E i \in 1..Len(m_tasks) : MReadText(i) /\ UNCHANGED <<notModernOrder, orderVars>>
    \/ \E i \in 1..Len(m_tasks) : MResume(i) /\ UNCHANGED <<notModernOrder, orderVars>>

SpecBreadth == MBInit /\ [][MBNext]_vars

\* C21: with a page parser that returns each page's links, the frontier of
\* ModernWebCrawler is dequeued in breadth-first order: the depth of a dequeued
\* entry is never below the depth of the entry dequeued before it.
C21_DequeuedDepthsNeverDecrease == ~m_decreased

\* ----------------------------------------------------------------
\* The config-driven crawler with retry_attempts and the registered errors
\* ----------------------------------------------------------------

\* Largest retry_attempts.
CMaxRetryCfg == 2

\* WebCrawler.__init__ with retry_attempts (no page budget, respect_robots off).
CTInit ==
    /\ c_pc = "loop"
    /\ c_base_urls \in {<<"S">>, <<"S", "A">>}
    /\ c_idx = 1
    /\ c_max_depth \in 1..CMaxDepthCfg
    /\ c_max_pages = None
    /\ c_chunk_size = MaxChunkSize
    /\ c_visited_urls = {}
    /\ c_tasks = <<>>
    /\ c_current_chunk = <<>>
    /\ c_chunk_counter = 1
    /\ c_total_pages = 0
    /\ c_files = <<>>
    /\ c_fetches = [u \in CUrls |-> 0]
    /\ c_asScenario = TRUE
    /\ c_concurrency = MaxConcurrency
    /\ c_respect_robots = FALSE
    /\ c_robots = [d \in CNetlocs |-> "norules"]
    /\ c_robots_parsers = {}
    /\ c_clock = 0
    /\ c_last_start = [d \in CNetlocs |-> None]
    /\ c_min_gap = [d \in CNetlocs |-> None]
    \* ModernWebCrawler is not running
    /\ m_pc = "off"
    /\ m_helpers = FALSE
    /\ m_max_depth = 0
    /\ m_max_pages = 0
    /\ m_concurrent_requests = 0
    /\ m_visited_urls = {}
    /\ m_url_queue = <<>>
    /\ m_tasks = <<>>
    /\ m_db = [u \in MUrls |-> NoHash]
    /\ m_fetches = [u \in MUrls |-> 0]
    /\ m_dupLinks = {}
    \* the thread-pool crawler is not running
    /\ p_main = "off"
    /\ p_threads = 0
    /\ p_max_depth = 0
    /\ p_chunk_size = 0
    /\ p_visited_urls = {}
    /\ p_queue = <<>>
    /\ p_work = <<>>
    /\ p_workers = <<>>
    /\ p_current_chunk = <<>>
    /\ p_chunk_counter = 0
    /\ p_total_pages = 0
    /\ p_files = <<>>
    /\ p_fetches = <<>>
    /\ p_appended = <<>>
    \* the sequential crawlers are not running
    /\ s_variant = "off"
    /\ s_pc = "off"
    /\ s_chunk_size = 0
    /\ s_max_depth = 0
    /\ s_max_pages = 0
    /\ s_visited_urls = {}
    /\ s_urls_to_visit = <<>>
    /\ s_stack = <<>>
    /\ s_current_chunk = <<>>
    /\ s_chunk_counter = 0
    /\ s_total_pages = 0
    /\ s_files = <<>>
    /\ s_emitted = <<>>
    \* the RateLimiter is not in use
    /\ r_delay = 0
    /\ r_clock = 0
    /\ r_last_request = 0
    /\ r_locked = FALSE
    /\ r_waiters = <<>>
    /\ r_callers = <<>>
    /\ r_last_return = 0
    /\ r_min_gap = 0
    \* AsyncWebCrawler is not running
    /\ a_pc = "off"
    /\ a_max_concurrent = 0
    /\ a_visited_urls = {}
    /\ a_urls_to_visit = <<>>
    /\ a_tasks = <<>>
    /\ a_sem = 0
    /\ a_sem_waiters = <<>>
    /\ a_pages = <<>>
    /\ a_fetches = <<>>
    \* any site for ModernWebCrawler, no dequeue recorded
    /\ m_site = "any"
    /\ m_last_depth = -1
    /\ m_decreased = FALSE
    \* retry_attempts of the config, no error registered yet
    /\ c_retry_attempts \in 0..CMaxRetryCfg
    /\ c_errors = {}
    \* no function is called on its own
    /\ f_fn = "none"
    /\ f_pc = "off"
    /\ f_args = <<>>
    /\ f_result = FALSE
    \* no link of a page is recorded
    /\ s_page_links = {}
    /\ s_fetch_failed = FALSE
    \* get_api_content is not called
    /\ g_pc = "off"
    /\ g_rate_limit_remaining = 0
    /\ g_requests = 0
    /\ g_pauses = 0
    /\ g_result = "none"
    \* no page record is built
    /\ c_links_of = {}
    /\ c_extracted = {}
    /\ c_page_task = {}
    /\ c_written = {}

\* fetch_page_content_async: the except clause hands the URL to
\* Reporting.register_error and returns (None, None); the task returns [].
CTFetchFailed(i) ==
    /\ CFetchFailed(i)
    /\ c_errors' = c_errors \cup {c_tasks[i].url}
    /\ UNCHANGED c_retry_attempts

CTNext ==
    \/ CCrawlLoop /\ UNCHANGED <<notCoreRetry, retryVars>>
    \/ CAsyncFinish /\ UNCHANGED <<notCoreRetry, retryVars>>
    \/ \E i \in 1..Len(c_tasks) : CTaskStart(i) /\ UNCHANGED <<notCoreRetry, retryVars>>
    \/ \E i \in 1..Len(c_tasks) : CTFetchFailed(i) /\ UNCHANGED notCoreRetry
    \/ \E i \in 1..Len(c_tasks) : CFetched(i) /\ UNCHANGED <<notCoreRetry, retryVars>>
    \/ \E i \in 1..Len(c_tasks) : CJoin(i) /\ UNCHANGED <<notCoreRetry, retryVars>>

SpecCoreRetry == CTInit /\ [][CTNext]_vars

\* C23: a fetch that fails is attempted again until it succeeds or
\* retry_attempts retries have been made; only then is the error registered:
\* a URL with a registered error has been requested 1 + retry_attempts times.
C23_RetriedBeforeAbandoned ==
    \A u \in c_errors : c_fetches[u] >= 1 + c_retry_attempts

\* ----------------------------------------------------------------
\* The config-driven crawler with any configuration load_config can give
\* ----------------------------------------------------------------

\* WebCrawler.__init__ with a config whose start_urls can be empty and whose
\* concurrency and chunk_size can be 0 (load_config checks no value).
CVInit ==
    /\ c_pc = "loop"
    /\ c_base_urls \in {<<>>, <<"S">>}
    /\ c_idx = 1
    /\ c_max_depth \in 1..CMaxDepthCfg
    /\ c_max_pages = None
    /\ c_chunk_size \in 0..MaxChunkSize
    /\ c_visited_urls = {}
    /\ c_tasks = <<>>
    /\ c_current_chunk = <<>>
    /\ c_chunk_counter = 1
    /\ c_total_pages = 0
    /\ c_files = <<>>
    /\ c_fetches = [u \in CUrls |-> 0]
    /\ c_asScenario = TRUE
    /\ c_concurrency \in 0..MaxConcurrency
    /\ c_respect_robots = FALSE
    /\ c_robots = [d \in CNetlocs |-> "norules"]
    /\ c_robots_parsers = {}
    /\ c_clock = 0
    /\ c_last_start = [d \in CNetlocs |-> None]
    /\ c_min_gap = [d \in CNetlocs |-> None]
    \* ModernWebCrawler is not running
    /\ m_pc = "off"
    /\ m_helpers = FALSE
    /\ m_max_depth = 0
    /\ m_max_pages = 0
    /\ m_concurrent_requests = 0
    /\ m_visited_urls = {}
    /\ m_url_queue = <<>>
    /\ m_tasks = <<>>
    /\ m_db = [u \in MUrls |-> NoHash]
    /\ m_fetches = [u \in MUrls |-> 0]
    /\ m_dupLinks = {}
    \* the thread-pool crawler is not running
    /\ p_main = "off"
    /\ p_threads = 0
    /\ p_max_depth = 0
    /\ p_chunk_size = 0
    /\ p_visited_urls = {}
    /\ p_queue = <<>>
    /\ p_work = <<>>
    /\ p_workers = <<>>
    /\ p_current_chunk = <<>>
    /\ p_chunk_counter = 0
    /\ p_total_pages = 0
    /\ p_files = <<>>
    /\ p_fetches = <<>>
    /\ p_appended = <<>>
    \* the sequential crawlers are not running
    /\ s_variant = "off"
    /\ s_pc = "off"
    /\ s_chunk_size = 0
    /\ s_max_depth = 0
    /\ s_max_pages = 0
    /\ s_visited_urls = {}
    /\ s_urls_to_visit = <<>>
    /\ s_stack = <<>>
    /\ s_current_chunk = <<>>
    /\ s_chunk_counter = 0
    /\ s_total_pages = 0
    /\ s_files = <<>>
    /\ s_emitted = <<>>
    \* the RateLimiter is not in use
    /\ r_delay = 0
    /\ r_clock = 0
    /\ r_last_request = 0
    /\ r_locked = FALSE
    /\ r_waiters = <<>>
    /\ r_callers = <<>>
    /\ r_last_return = 0
    /\ r_min_gap = 0
    \* AsyncWebCrawler is not running
    /\ a_pc = "off"
    /\ a_max_concurrent = 0
    /\ a_visited_urls = {}
    /\ a_urls_to_visit = <<>>
    /\ a_tasks = <<>>
    /\ a_sem = 0
    /\ a_sem_waiters = <<>>
    /\ a_pages = <<>>
    /\ a_fetches = <<>>
    \* any site for ModernWebCrawler, no dequeue recorded
    /\ m_site = "any"
    /\ m_last_depth = -1
    /\ m_decreased = FALSE
    \* no retries configured, no error registered
    /\ c_retry_attempts = 0
    /\ c_errors = {}
    \* no function is called on its own
    /\ f_fn = "none"
    /\ f_pc = "off"
    /\ f_args = <<>>
    /\ f_result = FALSE
    \* no link of a page is recorded
    /\ s_page_links = {}
    /\ s_fetch_failed = FALSE
    \* get_api_content is not called
    /\ g_pc = "off"
    /\ g_rate_limit_remaining = 0
    /\ g_requests = 0
    /\ g_pauses = 0
    /\ g_result = "none"
    \* no page record is built
    /\ c_links_of = {}
    /\ c_extracted = {}
    /\ c_page_task = {}
    /\ c_written = {}

SpecCoreConfig == CVInit /\ [][CNext]_vars

\* The configurations said to be fatal.
CFatalConfig == c_base_urls = <<>> \/ c_concurrency <= 0 \/ c_chunk_size <= 0

\* C24: with empty start_urls, or concurrency <= 0, or chunk_size <= 0, crawl
\* fails before any page is fetched and before any chunk is written.
C24_FatalConfigFetchesNothing ==
    (c_pc # "off" /\ CFatalConfig)
        => ((\A u \in CUrls : c_fetches[u] = 0) /\ c_files = <<>>)

\* ================================================================
\* Single calls of the functions of the crawlers
\* ================================================================

\* Longest path and longest prefix, in characters, and the longest list of
\* prefixes.
RMaxPathLen == 2
RMaxPrefixes == 2

\* URL paths (the empty path included), the prefixes parse_rules can record
\* (it skips empty ones), and the lists of prefixes.
RPaths == SeqsUpTo({"/", "a"}, RMaxPathLen)
RPrefixes == RPaths \ {<<>>}
RPrefixLists == SeqsUpTo(RPrefixes, RMaxPrefixes)

\* A RobotsParser with allow_paths and disallowed_paths, and a URL with a
\* path, for one call of is_allowed.
RAInit ==
    /\ f_fn = "is_allowed"
    /\ f_pc = "call"
    /\ f_args \in [path : RPaths, allow_paths : RPrefixLists, disallowed_paths : RPrefixLists]
    /\ f_result = FALSE
    \* the thread-pool crawler is not running
    /\ p_main = "off"
    /\ p_threads = 0
    /\ p_max_depth = 0
    /\ p_chunk_size = 0
    /\ p_visited_urls = {}
    /\ p_queue = <<>>
    /\ p_work = <<>>
    /\ p_workers = <<>>
    /\ p_current_chunk = <<>>
    /\ p_chunk_counter = 0
    /\ p_total_pages = 0
    /\ p_files = <<>>
    /\ p_fetches = <<>>
    /\ p_appended = <<>>
    \* the config-driven crawler is not running
    /\ c_pc = "off"
    /\ c_base_urls = <<>>
    /\ c_idx = 0
    /\ c_max_depth = 0
    /\ c_max_pages = 0
    /\ c_chunk_size = 0
    /\ c_visited_urls = {}
    /\ c_tasks = <<>>
    /\ c_current_chunk = <<>>
    /\ c_chunk_counter = 0
    /\ c_total_pages = 0
    /\ c_files = <<>>
    /\ c_fetches = <<>>
    /\ c_asScenario = FALSE
    /\ c_concurrency = 0
    /\ c_respect_robots = FALSE
    /\ c_robots = <<>>
    /\ c_robots_parsers = {}
    /\ c_clock = 0
    /\ c_last_start = <<>>
    /\ c_min_gap = <<>>
    \* the sequential crawlers are not running
    /\ s_variant = "off"
    /\ s_pc = "off"
    /\ s_chunk_size = 0
    /\ s_max_depth = 0
    /\ s_max_pages = 0
    /\ s_visited_urls = {}
    /\ s_urls_to_visit = <<>>
    /\ s_stack = <<>>
    /\ s_current_chunk = <<>>
    /\ s_chunk_counter = 0
    /\ s_total_pages = 0
    /\ s_files = <<>>
    /\ s_emitted = <<>>
    \* the RateLimiter is not in use
    /\ r_delay = 0
    /\ r_clock = 0
    /\ r_last_request = 0
    /\ r_locked = FALSE
    /\ r_waiters = <<>>
    /\ r_callers = <<>>
    /\ r_last_return = 0
    /\ r_min_gap = 0
    \* AsyncWebCrawler is not running
    /\ a_pc = "off"
    /\ a_max_concurrent = 0
    /\ a_visited_urls = {}
    /\ a_urls_to_visit = <<>>
    /\ a_tasks = <<>>
    /\ a_sem = 0
    /\ a_sem_waiters = <<>>
    /\ a_pages = <<>>
    /\ a_fetches = <<>>
    \* any site for ModernWebCrawler, no dequeue recorded
    /\ m_site = "any"
    /\ m_last_depth = -1
    /\ m_decreased = FALSE
    \* no retries configured, no error registered
    /\ c_retry_attempts = 0
    /\ c_errors = {}
    \* ModernWebCrawler is not running
    /\ m_pc = "off"
    /\ m_helpers = FALSE
    /\ m_max_depth = 0
    /\ m_max_pages = 0
    /\ m_concurrent_requests = 0
    /\ m_visited_urls = {}
    /\ m_url_queue = <<>>
    /\ m_tasks = <<>>
    /\ m_db = [u \in MUrls |-> NoHash]
    /\ m_fetches = [u \in MUrls |-> 0]
    /\ m_dupLinks = {}
    \* no link of a page is recorded
    /\ s_page_links = {}
    /\ s_fetch_failed = FALSE
    \* get_api_content is not called
    /\ g_pc = "off"
    /\ g_rate_limit_remaining = 0
    /\ g_requests = 0
    /\ g_pauses = 0
    /\ g_result = "none"
    \* no page record is built
    /\ c_links_of = {}
    /\ c_extracted = {}
    /\ c_page_task = {}
    /\ c_written = {}

\* RobotsParser.is_allowed(url) returns.
RIsAllowedCall ==
    /\ f_fn = "is_allowed" /\ f_pc = "call"
    /\ f_result' = RIsAllowedPath(f_args.path, f_args.allow_paths, f_args.disallowed_paths)
    /\ f_pc' = "returned"
    /\ UNCHANGED <<f_fn, f_args>>

RANext ==
    \/ RIsAllowedCall /\ UNCHANGED notCall

SpecIsAllowed == RAInit /\ [][RANext]_vars

\* C26: is_allowed returns, for every path and all lists of prefixes: allowed
\* if some Allow prefix is a prefix of the path, else denied if some Disallow
\* prefix is a prefix of the path, else allowed.
C26_IsAllowedByPrefixes ==
    (f_fn = "is_allowed" /\ f_pc = "returned")
        => f_result =
             (IF \E k \in 1..Len(f_args.allow_paths) :
                    StartsWith(f_args.path, f_args.allow_paths[k])
              THEN TRUE
              ELSE ~\E k \in 1..Len(f_args.disallowed_paths) :
                    StartsWith(f_args.path, f_args.disallowed_paths[k]))

\* ---------------------------------------------------------------- RobotsParser

\* Longest robots.txt, in lines.
RMaxLines == 2

\* The lines of a robots.txt: the field before the colon and the stripped
\* value after it.
RLines ==
    {[field |-> "User-agent", value |-> <<"*">>], [field |-> "User-agent", value |-> <<"x">>],
     [field |-> "Disallow", value |-> <<"/", "a">>], [field |-> "Disallow", value |-> <<>>],
     [field |-> "Allow", value |-> <<"/", "a">>], [field |-> "Crawl-delay", value |-> <<"1">>]}

RTexts == SeqsUpTo(RLines, RMaxLines)

\* What requests.get(robots_url) and raise_for_status do: a connection error
\* or timeout, an error status, or a delivered text.
ROutcomes == {"error", "status", "ok"}

\* parse_robots' `except requests.exceptions.RequestException` catches the
\* exception of requests.get and the HTTPError of raise_for_status.
RFetchCaughtConnectionOnly(outcome) == outcome = "error"
RFetchCaught(outcome) == outcome \in {"error", "status"}

\* The fields of a RobotsParser after the assignments of __init__.
RNewParser == [allow_paths |-> <<>>, disallowed_paths |-> <<>>, crawl_delay |-> None]

\* A URL with a path and what the request for robots.txt will give, for
\* RobotsParser(url) and the calls of is_allowed and get_crawl_delay.
RPInit ==
    /\ f_fn = "RobotsParser"
    /\ f_pc = "call"
    /\ f_args \in [outcome : ROutcomes, content : RTexts, path : RPaths]
    /\ f_result = [parser |-> RNewParser, allowed |-> FALSE, delay |-> None]
    \* the thread-pool crawler is not running
    /\ p_main = "off"
    /\ p_threads = 0
    /\ p_max_depth = 0
    /\ p_chunk_size = 0
    /\ p_visited_urls = {}
    /\ p_queue = <<>>
    /\ p_work = <<>>
    /\ p_workers = <<>>
    /\ p_current_chunk = <<>>
    /\ p_chunk_counter = 0
    /\ p_total_pages = 0
    /\ p_files = <<>>
    /\ p_fetches = <<>>
    /\ p_appended = <<>>
    \* the config-driven crawler is not running
    /\ c_pc = "off"
    /\ c_base_urls = <<>>
    /\ c_idx = 0
    /\ c_max_depth = 0
    /\ c_max_pages = 0
    /\ c_chunk_size = 0
    /\ c_visited_urls = {}
    /\ c_tasks = <<>>
    /\ c_current_chunk = <<>>
    /\ c_chunk_counter = 0
    /\ c_total_pages = 0
    /\ c_files = <<>>
    /\ c_fetches = <<>>
    /\ c_asScenario = FALSE
    /\ c_concurrency = 0
    /\ c_respect_robots = FALSE
    /\ c_robots = <<>>
    /\ c_robots_parsers = {}
    /\ c_clock = 0
    /\ c_last_start = <<>>
    /\ c_min_gap = <<>>
    \* the sequential crawlers are not running
    /\ s_variant = "off"
    /\ s_pc = "off"
    /\ s_chunk_size = 0
    /\ s_max_depth = 0
    /\ s_max_pages = 0
    /\ s_visited_urls = {}
    /\ s_urls_to_visit = <<>>
    /\ s_stack = <<>>
    /\ s_current_chunk = <<>>
    /\ s_chunk_counter = 0
    /\ s_total_pages = 0
    /\ s_files = <<>>
    /\ s_emitted = <<>>
    \* the RateLimiter is not in use
    /\ r_delay = 0
    /\ r_clock = 0
    /\ r_last_request = 0
    /\ r_locked = FALSE
    /\ r_waiters = <<>>
    /\ r_callers = <<>>
    /\ r_last_return = 0
    /\ r_min_gap = 0
    \* AsyncWebCrawler is not running
    /\ a_pc = "off"
    /\ a_max_concurrent = 0
    /\ a_visited_urls = {}
    /\ a_urls_to_visit = <<>>
    /\ a_tasks = <<>>
    /\ a_sem = 0
    /\ a_sem_waiters = <<>>
    /\ a_pages = <<>>
    /\ a_fetches = <<>>
    \* any site for ModernWebCrawler, no dequeue recorded
    /\ m_site = "any"
    /\ m_last_depth = -1
    /\ m_decreased = FALSE
    \* no retries configured, no error registered
    /\ c_retry_attempts = 0
    /\ c_errors = {}
    \* ModernWebCrawler is not running
    /\ m_pc = "off"
    /\ m_helpers = FALSE
    /\ m_max_depth = 0
    /\ m_max_pages = 0
    /\ m_concurrent_requests = 0
    /\ m_visited_urls = {}
    /\ m_url_queue = <<>>
    /\ m_tasks = <<>>
    /\ m_db = [u \in MUrls |-> NoHash]
    /\ m_fetches = [u \in MUrls |-> 0]
    /\ m_dupLinks = {}
    \* no link of a page is recorded
    /\ s_page_links = {}
    /\ s_fetch_failed = FALSE
    \* get_api_content is not called
    /\ g_pc = "off"
    /\ g_rate_limit_remaining = 0
    /\ g_requests = 0
    /\ g_pauses = 0
    /\ g_result = "none"
    \* no page record is built
    /\ c_links_of = {}
    /\ c_extracted = {}
    /\ c_page_task = {}
    /\ c_written = {}

\* RobotsParser.__init__: the fields are set and parse_robots runs.  A failed
\* request is caught and printed; an exception of another kind leaves the
\* constructor.  A delivered text goes to parse_rules, which reads the name
\* `agent`, bound nowhere, in the first iteration of its loop: with at least
\* one line the NameError leaves parse_rules, parse_robots and the
\* constructor.
RPConstruct ==
    /\ f_fn = "RobotsParser" /\ f_pc = "call"
    /\ f_pc' = IF f_args.outcome = "ok"
               THEN IF CParseRulesRaises(f_args.content) THEN "raised" ELSE "built"
               ELSE IF RFetchCaught(f_args.outcome) THEN "built" ELSE "raised"
    /\ f_result' = [f_result EXCEPT !.parser = RNewParser]
    /\ UNCHANGED <<f_fn, f_args>>

\* is_allowed(url) and get_crawl_delay() of the constructed parser.
RPQuery ==
    /\ f_fn = "RobotsParser" /\ f_pc = "built"
    /\ f_result' = [f_result EXCEPT
                        !.allowed = RIsAllowedPath(f_args.path, f_result.parser.allow_paths,
                                                   f_result.parser.disallowed_paths),
                        !.delay = f_result.parser.crawl_delay]
    /\ f_pc' = "queried"
    /\ UNCHANGED <<f_fn, f_args>>

RPNext ==
    \/ RPConstruct /\ UNCHANGED notCall
    \/ RPQuery /\ UNCHANGED notCall

SpecRobotsParser == RPInit /\ [][RPNext]_vars

\* C27: when fetching robots.txt fails, the construction of the parser does
\* not raise, no policy is recorded, is_allowed returns true for every URL and
\* get_crawl_delay returns none.
C27_FailedFetchFailsOpen ==
    (f_fn = "RobotsParser" /\ f_args.outcome # "ok")
        => /\ f_pc # "raised"
           /\ f_pc \in {"built", "queried"} => f_result.parser = RNewParser
           /\ f_pc = "queried" => (f_result.allowed /\ f_result.delay = None)

\* robots.txt answered with an error status, and the parser was asked about
\* a URL with a path.
C27_Witness ==
    /\ f_fn = "RobotsParser" /\ f_pc = "queried"
    /\ f_args.outcome = "status"
    /\ f_args.path = <<"/", "a">>
    /\ f_result.allowed

\* C28: for every robots.txt text that is delivered, the parser records the
\* non-empty Disallow and Allow prefixes of exactly the blocks whose User-agent
\* token is `*` (or the crawler's agent, which no block of these texts names):
\* the construction does not raise and the recorded lists hold those prefixes
\* and no others.
C28_RelevantBlocksRecorded ==
    LET lines == f_args.content
        agentLines(k) == {j \in 1..(k - 1) : lines[j].field = "User-agent"}
        blockAgent(k) == IF agentLines(k) = {} THEN <<>>
                         ELSE lines[CHOOSE j \in agentLines(k) : \A i \in agentLines(k) : i <= j].value
        relevant(field) == {lines[k].value : k \in {i \in 1..Len(lines) :
                                /\ lines[i].field = field
                                /\ lines[i].value # <<>>
                                /\ blockAgent(i) = <<"*">>}}
        recorded(paths) == {paths[k] : k \in 1..Len(paths)}
    IN (f_fn = "RobotsParser" /\ f_pc # "call" /\ f_args.outcome = "ok")
        => /\ f_pc # "raised"
           /\ recorded(f_result.parser.disallowed_paths) = relevant("Disallow")
           /\ recorded(f_result.parser.allow_paths) = relevant("Allow")

\* ---------------------------------------------------------------- URL validity

\* The base domain, and the hosts of the URLs: the base domain, a subdomain
\* of it, and two hosts that only contain its name.
UBaseDomain == <<"e", "x", ".", "c", "o">>
UHosts == {UBaseDomain, <<"a", ".">> \o UBaseDomain, <<"n">> \o UBaseDomain,
           UBaseDomain \o <<".", "i", "o">>}

\* The paths of the URLs and the base paths.
UPaths == {<<"/", "a">>, <<"/", "l", "o", "g", "i", "n">>, <<"/", "L", "o", "g", "i", "n">>}
UBasePaths == {<<>>, <<"/", "a">>}

\* The exclude_exact lists of a config.
UExcludeLists == {<<>>, << <<"/", "l", "o", "g", "i", "n">> >>, << <<"/", "L", "o", "g", "i", "n">> >>}

\* The URL as a string.
UText(scheme, netloc, path) == scheme \o <<":", "/", "/">> \o netloc \o path

\* The literals of the module-level list `exclude` of src/crawler2.py and
\* src/src/crawler.py that can occur in these URLs.
s_exclude == << <<"/", "l", "o", "g", "i", "n">>, <<"#">> >>

\* WebCrawler.is_valid_url of src/crawler2.py.
S2IsValidUrl(netloc, path, text, domain, base_path) ==
    /\ ~\E k \in 1..Len(s_exclude) : Contains(Lower(text), s_exclude[k])
    /\ Contains(netloc, domain)
    /\ StartsWith(path, base_path)

\* WebCrawler.is_valid_url of src/src/crawler.py: the same, and
\* robot_parser.can_fetch('*', url).
SRIsValidUrl(netloc, path, text, domain, base_path, can_fetch) ==
    /\ ~\E k \in 1..Len(s_exclude) : Contains(Lower(text), s_exclude[k])
    /\ Contains(netloc, domain)
    /\ StartsWith(path, base_path)
    /\ can_fetch

\* ModernWebCrawler.is_valid_url; of ignored_patterns (searched with re.I)
\* these URLs can match `login` and `#`.
MIsValidUrl(scheme, netloc, text, domain, can_fetch) ==
    /\ netloc # <<>> /\ scheme # <<>>
    /\ Contains(netloc, domain)
    /\ can_fetch
    /\ ~(Contains(Lower(text), <<"l", "o", "g", "i", "n">>) \/ Contains(text, <<"#">>))

\* A URL, the base domain and base path of a crawler, the exclude_exact list
\* of a config and the answer of the robots.txt parser, for one call of one of
\* the URL validity checks.
UInit ==
    /\ f_fn \in {"utils.is_valid_url", "crawler2.is_valid_url", "recursive.is_valid_url",
                  "modern.is_valid_url"}
    /\ f_pc = "call"
    /\ f_args \in [scheme : {CScheme("S")}, netloc : UHosts, path : UPaths,
                   base_domain : {UBaseDomain}, base_path : UBasePaths,
                   exclude_exact : UExcludeLists, can_fetch : BOOLEAN]
    /\ f_result = FALSE
    \* the thread-pool crawler is not running
    /\ p_main = "off"
    /\ p_threads = 0
    /\ p_max_depth = 0
    /\ p_chunk_size = 0
    /\ p_visited_urls = {}
    /\ p_queue = <<>>
    /\ p_work = <<>>
    /\ p_workers = <<>>
    /\ p_current_chunk = <<>>
    /\ p_chunk_counter = 0
    /\ p_total_pages = 0
    /\ p_files = <<>>
    /\ p_fetches = <<>>
    /\ p_appended = <<>>
    \* the config-driven crawler is not running
    /\ c_pc = "off"
    /\ c_base_urls = <<>>
    /\ c_idx = 0
    /\ c_max_depth = 0
    /\ c_max_pages = 0
    /\ c_chunk_size = 0
    /\ c_visited_urls = {}
    /\ c_tasks = <<>>
    /\ c_current_chunk = <<>>
    /\ c_chunk_counter = 0
    /\ c_total_pages = 0
    /\ c_files = <<>>
    /\ c_fetches = <<>>
    /\ c_asScenario = FALSE
    /\ c_concurrency = 0
    /\ c_respect_robots = FALSE
    /\ c_robots = <<>>
    /\ c_robots_parsers = {}
    /\ c_clock = 0
    /\ c_last_start = <<>>
    /\ c_min_gap = <<>>
    \* the sequential crawlers are not running
    /\ s_variant = "off"
    /\ s_pc = "off"
    /\ s_chunk_size = 0
    /\ s_max_depth = 0
    /\ s_max_pages = 0
    /\ s_visited_urls = {}
    /\ s_urls_to_visit = <<>>
    /\ s_stack = <<>>
    /\ s_current_chunk = <<>>
    /\ s_chunk_counter = 0
    /\ s_total_pages = 0
    /\ s_files = <<>>
    /\ s_emitted = <<>>
    \* the RateLimiter is not in use
    /\ r_delay = 0
    /\ r_clock = 0
    /\ r_last_request = 0
    /\ r_locked = FALSE
    /\ r_waiters = <<>>
    /\ r_callers = <<>>
    /\ r_last_return = 0
    /\ r_min_gap = 0
    \* AsyncWebCrawler is not running
    /\ a_pc = "off"
    /\ a_max_concurrent = 0
    /\ a_visited_urls = {}
    /\ a_urls_to_visit = <<>>
    /\ a_tasks = <<>>
    /\ a_sem = 0
    /\ a_sem_waiters = <<>>
    /\ a_pages = <<>>
    /\ a_fetches = <<>>
    \* any site for ModernWebCrawler, no dequeue recorded
    /\ m_site = "any"
    /\ m_last_depth = -1
    /\ m_decreased = FALSE
    \* no retries configured, no error registered
    /\ c_retry_attempts = 0
    /\ c_errors = {}
    \* ModernWebCrawler is not running
    /\ m_pc = "off"
    /\ m_helpers = FALSE
    /\ m_max_depth = 0
    /\ m_max_pages = 0
    /\ m_concurrent_requests = 0
    /\ m_visited_urls = {}
    /\ m_url_queue = <<>>
    /\ m_tasks = <<>>
    /\ m_db = [u \in MUrls |-> NoHash]
    /\ m_fetches = [u \in MUrls |-> 0]
    /\ m_dupLinks = {}
    \* no link of a page is recorded
    /\ s_page_links = {}
    /\ s_fetch_failed = FALSE
    \* get_api_content is not called
    /\ g_pc = "off"
    /\ g_rate_limit_remaining = 0
    /\ g_requests = 0
    /\ g_pauses = 0
    /\ g_result = "none"
    \* no page record is built
    /\ c_links_of = {}
    /\ c_extracted = {}
    /\ c_page_task = {}
    /\ c_written = {}

UArgText == UText(f_args.scheme, f_args.netloc, f_args.path)

UCallUtils ==
    /\ f_fn = "utils.is_valid_url" /\ f_pc = "call"
    /\ f_result' = UIsValidUrl(f_args.scheme, f_args.netloc, f_args.path, UArgText,
                               f_args.base_domain, f_args.base_path, <<>>, <<>>,
                               f_args.exclude_exact)
    /\ f_pc' = "returned"
    /\ UNCHANGED <<f_fn, f_args>>

UCallCrawler2 ==
    /\ f_fn = "crawler2.is_valid_url" /\ f_pc = "call"
    /\ f_result' = S2IsValidUrl(f_args.netloc, f_args.path, UArgText,
                                f_args.base_domain, f_args.base_path)
    /\ f_pc' = "returned"
    /\ UNCHANGED <<f_fn, f_args>>

UCallRecursive ==
    /\ f_fn = "recursive.is_valid_url" /\ f_pc = "call"
    /\ f_result' = SRIsValidUrl(f_args.netloc, f_args.path, UArgText,
                                f_args.base_domain, f_args.base_path, f_args.can_fetch)
    /\ f_pc' = "returned"
    /\ UNCHANGED <<f_fn, f_args>>

UCallModern ==
    /\ f_fn = "modern.is_valid_url" /\ f_pc = "call"
    /\ f_result' = MIsValidUrl(f_args.scheme, f_args.netloc, UArgText,
                               f_args.base_domain, f_args.can_fetch)
    /\ f_pc' = "returned"
    /\ UNCHANGED <<f_fn, f_args>>

UNext ==
    \/ UCallUtils /\ UNCHANGED notCall
    \/ UCallCrawler2 /\ UNCHANGED notCall
    \/ UCallRecursive /\ UNCHANGED notCall
    \/ UCallModern /\ UNCHANGED notCall

SpecIsValidUrl == UInit /\ [][UNext]_vars

\* C29: utils.is_valid_url returns false for every URL in which some literal
\* of exclude_exact occurs when case is ignored on both sides.
C29_ExcludeExactIgnoresCase ==
    ( /\ f_fn = "utils.is_valid_url" /\ f_pc = "returned"
      /\ \E k \in 1..Len(f_args.exclude_exact) :
             Contains(Lower(UArgText), Lower(f_args.exclude_exact[k])) )
        => ~f_result

\* C30: each URL validity check rejects every URL whose host is neither the
\* base domain nor a subdomain of it.
C30_ForeignHostsRejected ==
    ( /\ f_fn \in {"utils.is_valid_url", "crawler2.is_valid_url", "recursive.is_valid_url",
                    "modern.is_valid_url"}
      /\ f_pc = "returned"
      /\ f_result )
        => ( \/ f_args.netloc = f_args.base_domain
             \/ EndsWith(f_args.netloc, <<".">> \o f_args.base_domain) )


\* ================================================================
\* save_chunk of the chunking crawlers (src/crawler2.py, src/src/crawler.py,
\* src/.other/pro0/pro_crawler_A.py), observed at the call that ends crawl:
\* there the buffer holds what the crawl left in it, nothing or fewer than
\* chunk_size pages, and no other thread runs.
\* ================================================================

SCInit == SInit \/ PInit

SCNext == SNext \/ PNext

SpecSaveChunk == SCInit /\ [][SCNext]_vars

\* The step in which crawl of a sequential crawler calls save_chunk and returns.
SCSeqFinalCall == s_pc = "run" /\ s_pc' = "done"

\* The step in which crawl of the thread-pool crawler calls save_chunk and returns.
SCPoolFinalCall == p_main = "shutdown" /\ p_main' = "done"

\* C31: save_chunk with an empty buffer writes no chunk and leaves
\* chunk_counter, current_chunk and total_pages as they are; with a
\* non-empty buffer of fewer than chunk_size pages it writes one chunk (the
\* buffer's pages under the number chunk_counter), clears the buffer and adds
\* 1 to chunk_counter.
C31_SaveChunkEffect ==
    [][/\ SCSeqFinalCall =>
            IF s_current_chunk = <<>>
            THEN UNCHANGED <<s_files, s_chunk_counter, s_current_chunk, s_total_pages>>
            ELSE Len(s_current_chunk) < s_chunk_size =>
                    /\ s_files' = Append(s_files, [number |-> s_chunk_counter,
                                                   pages |-> s_current_chunk])
                    /\ s_current_chunk' = <<>>
                    /\ s_chunk_counter' = s_chunk_counter + 1
                    /\ s_total_pages' = s_total_pages
       /\ SCPoolFinalCall =>
            IF p_current_chunk = <<>>
            THEN UNCHANGED <<p_files, p_chunk_counter, p_current_chunk, p_total_pages>>
            ELSE Len(p_current_chunk) < p_chunk_size =>
                    /\ p_files' = Append(p_files, [number |-> p_chunk_counter,
                                                   pages |-> p_current_chunk])
                    /\ p_current_chunk' = <<>>
                    /\ p_chunk_counter' = p_chunk_counter + 1
                    /\ p_total_pages' = p_total_pages]_vars

\* A crawl has returned after a final save_chunk that wrote a chunk of fewer
\* than chunk_size pages.
C31_Witness ==
    \/ /\ s_pc = "done" /\ s_files # <<>>
       /\ Len(s_files[Len(s_files)].pages) < s_chunk_size
       /\ s_chunk_counter = Len(s_files) + 1
    \/ /\ p_main = "done" /\ p_files # <<>>
       /\ Len(p_files[Len(p_files)].pages) < p_chunk_size
       /\ p_current_chunk = <<>>


\* ================================================================
\* The sequential crawlers with a record of what they saw of the site: the
\* links that extract_links returned for each fetched page, and whether
\* get_page_content has failed for some page.
\* ================================================================

\* The pairs <<url, link>> for the links of the list ls found on the page of url.
SLinksOf(url, ls) == {<<url, ls[k]>> : k \in 1..Len(ls)}

SL2Fetched ==
    \E ls \in SLinkLists :
        /\ S2FetchedWith(ls)
        /\ s_page_links' = s_page_links \cup SLinksOf(Head(s_urls_to_visit), ls)
        /\ UNCHANGED s_fetch_failed

SL2FetchFailed ==
    S2FetchFailed /\ s_fetch_failed' = TRUE /\ UNCHANGED s_page_links

\* The link lists of the pages of a site of four pages.
SLRLinkLists == SeqsUpTo({"S", "A", "B", "D"}, SMaxLinks)

SLRCallFetched ==
    \E ls \in SLRLinkLists :
        /\ SRCallFetchedWith(ls)
        /\ s_page_links' = s_page_links \cup SLinksOf(Head(STop.links), ls)
        /\ UNCHANGED s_fetch_failed

\* crawl(max_pages = m) of crawler2.py with a page budget m.
SL2Init ==
    /\ SInit
    /\ s_variant = "crawler2"
    /\ s_max_pages # None

SL2Next ==
    \/ S2Skip /\ UNCHANGED <<notSeqLink, linkVars>>
    \/ SL2FetchFailed /\ UNCHANGED notSeqLink
    \/ SL2Fetched /\ UNCHANGED notSeqLink
    \/ S2Finish /\ UNCHANGED <<notSeqLink, linkVars>>

SpecCrawler2Links == SL2Init /\ [][SL2Next]_vars

\* crawl of src/src/crawler.py on a site whose every page can be fetched.
SLRInit ==
    /\ SInit
    /\ s_variant = "recursive"

SLRNext ==
    \/ SRCallSkipped /\ UNCHANGED <<notSeqLink, linkVars>>
    \/ SLRCallFetched /\ UNCHANGED notSeqLink
    \/ SRReturn /\ UNCHANGED <<notSeqLink, linkVars>>
    \/ SRFinish /\ UNCHANGED <<notSeqLink, linkVars>>

SpecRecursiveLinks == SLRInit /\ [][SLRNext]_vars

\* The URLs that a link of a fetched page points to.
SLinked == {e[2] : e \in s_page_links}

\* C32: in crawl(max_pages = m) of crawler2.py the number of emitted pages
\* never exceeds m, no fetch starts once total_pages has reached m, and when
\* crawl has returned either total_pages = m or the base URL and every URL
\* linked from a fetched page have been visited.
C32_PageBudgetOfCrawler2 ==
    /\ []((s_variant = "crawler2" /\ s_max_pages # None) =>
            /\ Len(s_emitted) <= s_max_pages
            /\ s_total_pages <= s_max_pages)
    /\ [][(s_variant = "crawler2" /\ s_max_pages # None /\ s_visited_urls' # s_visited_urls)
            => s_total_pages < s_max_pages]_vars
    /\ []((s_variant = "crawler2" /\ s_max_pages # None /\ s_pc = "done") =>
            \/ s_total_pages = s_max_pages
            \/ {s_base_url} \cup SLinked \subseteq s_visited_urls)

\* A crawl has stopped on its budget with a linked URL left unvisited.
C32_Witness ==
    /\ s_variant = "crawler2" /\ s_max_pages # None /\ s_pc = "done"
    /\ s_total_pages = s_max_pages
    /\ ~(SLinked \subseteq s_visited_urls)


\* ================================================================
\* The asyncio crawlers that claim a URL at the start of its page task:
\* WebCrawler of core.py and AsyncWebCrawler of src/web_crawler2.py.
\* ================================================================

ACInit == CInit \/ AInit

ACNext == CNext \/ ANext

SpecAsyncClaim == ACInit /\ [][ACNext]_vars

\* C33: no URL is fetched twice in a run of core.py's crawl or of
\* AsyncWebCrawler.crawl, also when gather runs several tasks for one URL.
C33_AsyncFetchedAtMostOnce ==
    /\ c_pc # "off" => \A u \in CUrls : c_fetches[u] <= 1
    /\ a_pc # "off" => \A u \in AUrls : a_fetches[u] <= 1

\* Two tasks for the same URL were gathered together and have both passed
\* the membership test; the URL was requested once.
C33_Witness ==
    \/ /\ c_pc # "off"
       /\ \E i, j \in 1..Len(c_tasks) :
            /\ i # j /\ c_tasks[i].url = c_tasks[j].url
            /\ c_tasks[i].depth <= c_max_depth /\ c_tasks[j].depth <= c_max_depth
            /\ c_tasks[i].pc # "new" /\ c_tasks[j].pc # "new"
            /\ c_fetches[c_tasks[i].url] = 1
    \/ /\ a_pc # "off"
       /\ \E i, j \in 1..Len(a_tasks) :
            /\ i # j /\ a_tasks[i].url = a_tasks[j].url
            /\ a_tasks[i].pc # "new" /\ a_tasks[j].pc # "new"
            /\ a_fetches[a_tasks[i].url] = 1


\* ================================================================
\* Termination of crawl: WebCrawler.crawl of src/crawler2.py,
\* AsyncWebCrawler.crawl of src/web_crawler2.py and ModernWebCrawler.crawl of
\* src/crawler.py.  Each program keeps running while it has a step to take:
\* the interpreter executes the next statement, the event loop runs a ready
\* task, and every request ends with a response, an error or a timeout.
\* ================================================================

\* crawl of crawler2.py, with or without a page budget.
S2Init ==
    /\ SInit
    /\ s_variant = "crawler2"

S2Next ==
    \/ S2Skip /\ UNCHANGED notSeq
    \/ S2FetchFailed /\ UNCHANGED notSeq
    \/ S2Fetched /\ UNCHANGED notSeq
    \/ S2Finish /\ UNCHANGED notSeq

TInit == S2Init \/ AInit \/ MInit

TNext == S2Next \/ ANext \/ MNext

SpecTermination == TInit /\ [][TNext]_vars /\ WF_vars(TNext)

\* crawl has returned, and the loop test that ended it found the frontier
\* empty or the page budget spent.
TTerminated ==
    \/ /\ s_pc = "done"
       /\ s_urls_to_visit = <<>> \/ (s_max_pages # None /\ s_total_pages >= s_max_pages)
    \/ /\ a_pc = "done"
       /\ a_urls_to_visit = <<>>
    \/ /\ m_pc = "done"
       /\ m_url_queue = <<>> \/ Cardinality(m_visited_urls) >= m_max_pages

RATE_LIMIT_BUFFER == 10

\* rate_limit_remaining after __init__ and after a pause of check_rate_limit.
GFullQuota == 5000

\* The value taken for a response without the header X-RateLimit-Remaining.
GDefaultRemaining == 10

\* Requests and pauses are counted up to these numbers.
GMaxRequests == 3
GMaxPauses == 2

\* The values of the header X-RateLimit-Remaining in the responses.
GHeaders == {0, RATE_LIMIT_BUFFER + 1, GFullQuota - 1}

\* The status codes of the responses: 200, 403 and one other.
GStatuses == {200, 403, 404}

GCount(n, max) == IF n < max THEN n + 1 ELSE max

\* get_api_content(path) is called on a crawler that has made any number of
\* requests before.
GInit ==
    /\ g_pc = "call"
    /\ g_rate_limit_remaining \in GHeaders \cup {GDefaultRemaining, GFullQuota}
    /\ g_requests = 0
    /\ g_pauses = 0
    /\ g_result = "none"
    \* the thread-pool crawler is not running
    /\ p_main = "off"
    /\ p_threads = 0
    /\ p_max_depth = 0
    /\ p_chunk_size = 0
    /\ p_visited_urls = {}
    /\ p_queue = <<>>
    /\ p_work = <<>>
    /\ p_workers = <<>>
    /\ p_current_chunk = <<>>
    /\ p_chunk_counter = 0
    /\ p_total_pages = 0
    /\ p_files = <<>>
    /\ p_fetches = <<>>
    /\ p_appended = <<>>
    \* the config-driven crawler is not running
    /\ c_pc = "off"
    /\ c_base_urls = <<>>
    /\ c_idx = 0
    /\ c_max_depth = 0
    /\ c_max_pages = 0
    /\ c_chunk_size = 0
    /\ c_visited_urls = {}
    /\ c_tasks = <<>>
    /\ c_current_chunk = <<>>
    /\ c_chunk_counter = 0
    /\ c_total_pages = 0
    /\ c_files = <<>>
    /\ c_fetches = <<>>
    /\ c_asScenario = FALSE
    /\ c_concurrency = 0
    /\ c_respect_robots = FALSE
    /\ c_robots = <<>>
    /\ c_robots_parsers = {}
    /\ c_clock = 0
    /\ c_last_start = <<>>
    /\ c_min_gap = <<>>
    \* the sequential crawlers are not running
    /\ s_variant = "off"
    /\ s_pc = "off"
    /\ s_chunk_size = 0
    /\ s_max_depth = 0
    /\ s_max_pages = 0
    /\ s_visited_urls = {}
    /\ s_urls_to_visit = <<>>
    /\ s_stack = <<>>
    /\ s_current_chunk = <<>>
    /\ s_chunk_counter = 0
    /\ s_total_pages = 0
    /\ s_files = <<>>
    /\ s_emitted = <<>>
    \* the RateLimiter is not in use
    /\ r_delay = 0
    /\ r_clock = 0
    /\ r_last_request = 0
    /\ r_locked = FALSE
    /\ r_waiters = <<>>
    /\ r_callers = <<>>
    /\ r_last_return = 0
    /\ r_min_gap = 0
    \* AsyncWebCrawler is not running
    /\ a_pc = "off"
    /\ a_max_concurrent = 0
    /\ a_visited_urls = {}
    /\ a_urls_to_visit = <<>>
    /\ a_tasks = <<>>
    /\ a_sem = 0
    /\ a_sem_waiters = <<>>
    /\ a_pages = <<>>
    /\ a_fetches = <<>>
    \* any site for ModernWebCrawler, no dequeue recorded
    /\ m_site = "any"
    /\ m_last_depth = -1
    /\ m_decreased = FALSE
    \* no retries configured, no error registered
    /\ c_retry_attempts = 0
    /\ c_errors = {}
    \* no function is called on its own
    /\ f_fn = "none"
    /\ f_pc = "off"
    /\ f_args = <<>>
    /\ f_result = FALSE
    \* no link of a page is recorded
    /\ s_page_links = {}
    /\ s_fetch_failed = FALSE
    \* ModernWebCrawler is not running
    /\ m_pc = "off"
    /\ m_helpers = FALSE
    /\ m_max_depth = 0
    /\ m_max_pages = 0
    /\ m_concurrent_requests = 0
    /\ m_visited_urls = {}
    /\ m_url_queue = <<>>
    /\ m_tasks = <<>>
    /\ m_db = [u \in MUrls |-> NoHash]
    /\ m_fetches = [u \in MUrls |-> 0]
    /\ m_dupLinks = {}
    \* no page record is built
    /\ c_links_of = {}
    /\ c_extracted = {}
    /\ c_page_task = {}
    /\ c_written = {}

\* check_rate_limit at the start of get_api_content.  With few requests
\* remaining it asks for the reset time and sleeps until then; that request
\* can raise, outside the try block of get_api_content: the exception leaves
\* the first call, and in a call that get_api_content made to itself it is
\* caught by the caller's handler, which returns None.
GCheckRateLimit ==
    /\ g_pc = "call"
    /\ IF g_rate_limit_remaining <= RATE_LIMIT_BUFFER
       THEN \/ /\ g_rate_limit_remaining' = GFullQuota
               /\ g_pauses' = GCount(g_pauses, GMaxPauses)
               /\ g_pc' = "request"
               /\ UNCHANGED g_result
            \/ /\ g_pc' = "returned"
               /\ g_result' = IF g_requests = 0 THEN "raised" ELSE "None"
               /\ UNCHANGED <<g_rate_limit_remaining, g_pauses>>
       ELSE /\ g_pc' = "request"
            /\ UNCHANGED <<g_rate_limit_remaining, g_pauses, g_result>>
    /\ UNCHANGED g_requests

\* session.get raises, or the header is no number: the handler returns None.
GRequestFailed ==
    /\ g_pc = "request"
    /\ g_requests' = GCount(g_requests, GMaxRequests)
    /\ g_pc' = "returned"
    /\ g_result' = "None"
    /\ UNCHANGED <<g_rate_limit_remaining, g_pauses>>

\* The status of a response that makes get_api_content call itself again.
GRetry(status) == status = 403

\* session.get returns a response: rate_limit_remaining is taken from its
\* header; 200 returns the JSON body, 403 goes to time.sleep(60), any other
\* status returns None.
GResponse ==
    /\ g_pc = "request"
    /\ g_requests' = GCount(g_requests, GMaxRequests)
    /\ \E h \in GHeaders \cup {GDefaultRemaining} : g_rate_limit_remaining' = h
    /\ \E status \in GStatuses :
         IF status = 200 THEN g_pc' = "returned" /\ g_result' = "json"
         ELSE IF GRetry(status) THEN g_pc' = "sleep" /\ UNCHANGED g_result
         ELSE g_pc' = "returned" /\ g_result' = "None"
    /\ UNCHANGED g_pauses

\* time.sleep(60) returns and get_api_content(path) is called again; what
\* that call returns is returned.
GSleepDone ==
    /\ g_pc = "sleep"
    /\ g_pc' = "call"
    /\ UNCHANGED <<g_rate_limit_remaining, g_requests, g_pauses, g_result>>

GNext ==
    \/ GCheckRateLimit /\ UNCHANGED notGit
    \/ GRequestFailed /\ UNCHANGED notGit
    \/ GResponse /\ UNCHANGED notGit
    \/ GSleepDone /\ UNCHANGED notGit

\* The call keeps running: every request and every sleep ends.
SpecGitHubApi == GInit /\ [][GNext]_vars /\ WF_vars(GNext)

\* C35: get_api_content returns after a bounded number of requests, whatever
\* the server answers.
C35_GetApiContentReturns == <>(g_pc = "returned")


\* ================================================================
\* The page records of the config-driven crawler (core.py) and their `links`
\* field.  page_data['links'] is the list that extract_links returned, the
\* list that process_page_async returns and extends with what the tasks of
\* the links returned (`all_links = links` binds the same list object).
\* ================================================================

\* The list recorded for url in a set of pairs <<url, list>>; [] if none is.
CLValue(rel, url) ==
    LET m == {e \in rel : e[1] = url}
    IN IF m = {} THEN <<>> ELSE (CHOOSE e \in m : TRUE)[2]

CLSet(rel, url, value) == {e \in rel : e[1] # url} \cup {<<url, value>>}

\* The records of a chunk as json.dump writes them: each with the elements
\* its `links` list holds at that moment; the record of the URL `fresh` ("" for
\* none) has just been built with 'links': [].
CLSnapshot(chunk, fresh) ==
    {[url |-> chunk[k],
      links |-> IF chunk[k] = fresh THEN <<>> ELSE CLValue(c_links_of, chunk[k])] :
        k \in 1..Len(chunk)}

\* process_page_async for a fetched page: the record is appended with
\* 'links': [], a full chunk is written, and then page_data['links'] = links.
CLFetched(i) ==
    \E hrefs \in CHrefLists :
        /\ CFetchedWith(i, hrefs)
        /\ LET url == c_tasks[i].url
               chunk == Append(c_current_chunk, url)
               valid == extract_links(hrefs, c_visited_urls)
               links == IF c_respect_robots THEN CRobotsFilter(valid) ELSE valid
           IN /\ c_written' = IF Len(chunk) >= c_chunk_size
                              THEN c_written \cup CLSnapshot(chunk, url) ELSE c_written
              /\ c_links_of' = CLSet(c_links_of, url, links)
              /\ c_extracted' = CLSet(c_extracted, url, links)
              /\ c_page_task' = CLSet(c_page_task, url, i)

\* What the task j returned: the `links` list of the record it built, [] if
\* it built none.
CLResult(j) ==
    IF <<c_tasks[j].url, j>> \in c_page_task THEN CLValue(c_links_of, c_tasks[j].url) ELSE <<>>

\* The results of the tasks of the links of task i, from task j on, in the
\* order of gather.
RECURSIVE CLResults(_, _)
CLResults(i, j) ==
    IF j > Len(c_tasks) THEN <<>>
    ELSE (IF c_tasks[j].parent = i THEN CLResult(j) ELSE <<>>) \o CLResults(i, j + 1)

\* process_page_async after gather: `all_links.extend(result)` for each result.
CLJoin(i) ==
    /\ CJoin(i)
    /\ c_links_of' = CLSet(c_links_of, c_tasks[i].url,
                           CLValue(c_links_of, c_tasks[i].url) \o CLResults(i, 1))
    /\ UNCHANGED <<c_extracted, c_page_task, c_written>>

\* crawl_async after gather: the remaining records are written.
CLAsyncFinish ==
    /\ CAsyncFinish
    /\ c_written' = c_written \cup CLSnapshot(c_current_chunk, "")
    /\ c_page_task' = {}
    /\ UNCHANGED <<c_links_of, c_extracted>>

\* The chunk sizes of the runs: with 3 a record can stay in current_chunk
\* until the tasks of its links have returned.
CLMaxChunkSize == 3

\* WebCrawler.__init__ of core.py and the call of crawl.
CLInit ==
    /\ c_pc = "loop"
    /\ c_base_urls \in {<<"S">>, <<"S", "A">>}
    /\ c_idx = 1
    /\ c_max_depth \in 1..CMaxDepthCfg
    /\ c_max_pages \in {None} \cup 1..CMaxPagesCfg
    /\ c_chunk_size \in 1..CLMaxChunkSize
    /\ c_visited_urls = {}
    /\ c_tasks = <<>>
    /\ c_current_chunk = <<>>
    /\ c_chunk_counter = 1
    /\ c_total_pages = 0
    /\ c_files = <<>>
    /\ c_fetches = [u \in CUrls |-> 0]
    /\ c_asScenario = TRUE
    /\ c_concurrency \in 1..MaxConcurrency
    /\ c_respect_robots = FALSE
    /\ c_robots = [d \in CNetlocs |-> "norules"]
    /\ c_robots_parsers = {}
    /\ c_clock = 0
    /\ c_last_start = [d \in CNetlocs |-> None]
    /\ c_min_gap = [d \in CNetlocs |-> None]
    \* ModernWebCrawler is not running
    /\ m_pc = "off"
    /\ m_helpers = FALSE
    /\ m_max_depth = 0
    /\ m_max_pages = 0
    /\ m_concurrent_requests = 0
    /\ m_visited_urls = {}
    /\ m_url_queue = <<>>
    /\ m_tasks = <<>>
    /\ m_db = [u \in MUrls |-> NoHash]
    /\ m_fetches = [u \in MUrls |-> 0]
    /\ m_dupLinks = {}
    \* the thread-pool crawler is not running
    /\ p_main = "off"
    /\ p_threads = 0
    /\ p_max_depth = 0
    /\ p_chunk_size = 0
    /\ p_visited_urls = {}
    /\ p_queue = <<>>
    /\ p_work = <<>>
    /\ p_workers = <<>>
    /\ p_current_chunk = <<>>
    /\ p_chunk_counter = 0
    /\ p_total_pages = 0
    /\ p_files = <<>>
    /\ p_fetches = <<>>
    /\ p_appended = <<>>
    \* the sequential crawlers are not running
    /\ s_variant = "off"
    /\ s_pc = "off"
    /\ s_chunk_size = 0
    /\ s_max_depth = 0
    /\ s_max_pages = 0
    /\ s_visited_urls = {}
    /\ s_urls_to_visit = <<>>
    /\ s_stack = <<>>
    /\ s_current_chunk = <<>>
    /\ s_chunk_counter = 0
    /\ s_total_pages = 0
    /\ s_files = <<>>
    /\ s_emitted = <<>>
    \* the RateLimiter is not in use
    /\ r_delay = 0
    /\ r_clock = 0
    /\ r_last_request = 0
    /\ r_locked = FALSE
    /\ r_waiters = <<>>
    /\ r_callers = <<>>
    /\ r_last_return = 0
    /\ r_min_gap = 0
    \* AsyncWebCrawler is not running
    /\ a_pc = "off"
    /\ a_max_concurrent = 0
    /\ a_visited_urls = {}
    /\ a_urls_to_visit = <<>>
    /\ a_tasks = <<>>
    /\ a_sem = 0
    /\ a_sem_waiters = <<>>
    /\ a_pages = <<>>
    /\ a_fetches = <<>>
    \* any site for ModernWebCrawler, no dequeue recorded
    /\ m_site = "any"
    /\ m_last_depth = -1
    /\ m_decreased = FALSE
    \* no retries configured, no error registered
    /\ c_retry_attempts = 0
    /\ c_errors = {}
    \* no function is called on its own
    /\ f_fn = "none"
    /\ f_pc = "off"
    /\ f_args = <<>>
    /\ f_result = FALSE
    \* no link of a page is recorded
    /\ s_page_links = {}
    /\ s_fetch_failed = FALSE
    \* get_api_content is not called
    /\ g_pc = "off"
    /\ g_rate_limit_remaining = 0
    /\ g_requests = 0
    /\ g_pauses = 0
    /\ g_result = "none"
    \* no page record is built
    /\ c_links_of = {}
    /\ c_extracted = {}
    /\ c_page_task = {}
    /\ c_written = {}

CLNext ==
    \/ CCrawlLoop /\ UNCHANGED <<notCorePage, pageVars>>
    \/ CLAsyncFinish /\ UNCHANGED notCorePage
    \/ \E i \in 1..Len(c_tasks) : CTaskStart(i) /\ UNCHANGED <<notCorePage, pageVars>>
    \/ \E i \in 1..Len(c_tasks) : CFetchFailed(i) /\ UNCHANGED <<notCorePage, pageVars>>
    \/ \E i \in 1..Len(c_tasks) : CLFetched(i) /\ UNCHANGED notCorePage
    \/ \E i \in 1..Len(c_tasks) : CLJoin(i) /\ UNCHANGED notCorePage

SpecCorePages == CLInit /\ [][CLNext]_vars

\* C36: every page record written to a chunk carries in `links` exactly the
\* links that extract_links returned for that page.
C36_SavedLinksAreThePagesLinks ==
    \A w \in c_written : w.links = CLValue(c_extracted, w.url)


\* ---------------------------------------------------------------- claims on the recursive crawler's coverage

\* The URLs that a link path of at most k hops through the recorded links
\* reaches from the base URL.
RECURSIVE SLReach(_)
SLReach(k) ==
    IF k = 0 THEN {s_base_url}
    ELSE SLReach(k - 1) \cup {e[2] : e \in {x \in s_page_links : x[1] \in SLReach(k - 1)}}

\* C37: when crawl() of src/src/crawler.py has returned and every fetch has
\* succeeded, every URL within max_depth hops of the base URL has been crawled.
C37_ReachableWithinDepthIsCrawled ==
    (s_variant = "recursive" /\ s_pc = "done") => SLReach(s_max_depth) \subseteq s_visited_urls


\* ================================================================
\* load_config (src/src/.other/pro1/web_crawler/crawler/config.py) as the
\* command line of cli.py calls it.  A configuration is a dict of sections,
\* each a dict of settings; three settings stand for the others: max_depth
\* (an option with a value), respect_robots (a store_true flag) and
\* start_urls (the positional list).  Values are written as Python prints
\* them.
\* ================================================================

LNoneValue == [t |-> "none", v |-> <<>>]
LInt(text) == [t |-> "int", v |-> <<text>>]
LBool(text) == [t |-> "bool", v |-> <<text>>]
LList(urls) == [t |-> "list", v |-> urls]

\* Marks a setting that is left out of the YAML file or of the command line.
LOmitted == [t |-> "omitted", v |-> <<>>]

\* The dict of the settings that are not left out.
LDict(settings) == [k \in {x \in DOMAIN settings : settings[x] # LOmitted} |-> settings[k]]

\* The sections that hold a setting.
LSections(sections) == [k \in {x \in DOMAIN sections : DOMAIN sections[x] # {}} |-> sections[k]]

\* DEFAULT_CONFIG
DEFAULT_CONFIG ==
    [crawl |-> [max_depth |-> LInt("5"), respect_robots |-> LBool("True")],
     urls |-> [start_urls |-> LList(<<>>)]]

\* The contents yaml.safe_load can return for the file given with --config.
LFileConfigs ==
    {LSections([crawl |-> LDict([max_depth |-> md, respect_robots |-> rr]),
                urls |-> LDict([start_urls |-> su])]) :
        md \in {LOmitted, LInt("2")},
        rr \in {LOmitted, LBool("True"), LBool("False")},
        su \in {LOmitted, LList(<<"S">>)}}

\* The command lines: -d 3 or not, --respect_robots or not, the URL A or none.
LCommandLines ==
    [max_depth : {LOmitted, LInt("3")},
     respect_robots : {LOmitted, LBool("True")},
     start_urls : {LOmitted, LList(<<"A">>)}]

\* parser.parse_args() of cli.py: an option that is left out gets its default,
\* None for an option with a value, False for a store_true flag and [] for the
\* positional list with nargs="*".
LParseArgs(line) ==
    [max_depth |-> IF line.max_depth = LOmitted THEN LNoneValue ELSE line.max_depth,
     respect_robots |-> IF line.respect_robots = LOmitted THEN LBool("False")
                        ELSE line.respect_robots,
     start_urls |-> IF line.start_urls = LOmitted THEN LList(<<>>) ELSE line.start_urls]

\* update_dict for a section: `elif v is not None: d[k] = v`.
LUpdateSection(d, u) ==
    [k \in DOMAIN d \cup {x \in DOMAIN u : u[x] # LNoneValue} |->
        IF k \in DOMAIN u /\ u[k] # LNoneValue THEN u[k] ELSE d[k]]

\* update_dict for the configuration: `d[k] = update_dict(d.get(k, {}), v)`
\* for every section of u.
update_dict(d, u) ==
    [k \in DOMAIN d \cup DOMAIN u |->
        IF k \in DOMAIN u
        THEN LUpdateSection(IF k \in DOMAIN d THEN d[k] ELSE <<>>, u[k])
        ELSE d[k]]

\* load_config(config_file, cli_args)
load_config(file_config, cli_args) ==
    LET config == IF DOMAIN file_config # {} THEN update_dict(DEFAULT_CONFIG, file_config)
                  ELSE DEFAULT_CONFIG
        cli_config == [crawl |-> [max_depth |-> cli_args.max_depth,
                                  respect_robots |-> cli_args.respect_robots],
                       urls |-> [start_urls |-> cli_args.start_urls]]
    IN update_dict(config, cli_config)

LInit ==
    /\ f_fn = "load_config"
    /\ f_pc = "call"
    /\ f_args \in [file : LFileConfigs, line : LCommandLines]
    /\ f_result = FALSE
    \* the thread-pool crawler is not running
    /\ p_main = "off"
    /\ p_threads = 0
    /\ p_max_depth = 0
    /\ p_chunk_size = 0
    /\ p_visited_urls = {}
    /\ p_queue = <<>>
    /\ p_work = <<>>
    /\ p_workers = <<>>
    /\ p_current_chunk = <<>>
    /\ p_chunk_counter = 0
    /\ p_total_pages = 0
    /\ p_files = <<>>
    /\ p_fetches = <<>>
    /\ p_appended = <<>>
    \* the config-driven crawler is not running
    /\ c_pc = "off"
    /\ c_base_urls = <<>>
    /\ c_idx = 0
    /\ c_max_depth = 0
    /\ c_max_pages = 0
    /\ c_chunk_size = 0
    /\ c_visited_urls = {}
    /\ c_tasks = <<>>
    /\ c_current_chunk = <<>>
    /\ c_chunk_counter = 0
    /\ c_total_pages = 0
    /\ c_files = <<>>
    /\ c_fetches = <<>>
    /\ c_asScenario = FALSE
    /\ c_concurrency = 0
    /\ c_respect_robots = FALSE
    /\ c_robots = <<>>
    /\ c_robots_parsers = {}
    /\ c_clock = 0
    /\ c_last_start = <<>>
    /\ c_min_gap = <<>>
    \* the sequential crawlers are not running
    /\ s_variant = "off"
    /\ s_pc = "off"
    /\ s_chunk_size = 0
    /\ s_max_depth = 0
    /\ s_max_pages = 0
    /\ s_visited_urls = {}
    /\ s_urls_to_visit = <<>>
    /\ s_stack = <<>>
    /\ s_current_chunk = <<>>
    /\ s_chunk_counter = 0
    /\ s_total_pages = 0
    /\ s_files = <<>>
    /\ s_emitted = <<>>
    \* the RateLimiter is not in use
    /\ r_delay = 0
    /\ r_clock = 0
    /\ r_last_request = 0
    /\ r_locked = FALSE
    /\ r_waiters = <<>>
    /\ r_callers = <<>>
    /\ r_last_return = 0
    /\ r_min_gap = 0
    \* AsyncWebCrawler is not running
    /\ a_pc = "off"
    /\ a_max_concurrent = 0
    /\ a_visited_urls = {}
    /\ a_urls_to_visit = <<>>
    /\ a_tasks = <<>>
    /\ a_sem = 0
    /\ a_sem_waiters = <<>>
    /\ a_pages = <<>>
    /\ a_fetches = <<>>
    \* any site for ModernWebCrawler, no dequeue recorded
    /\ m_site = "any"
    /\ m_last_depth = -1
    /\ m_decreased = FALSE
    \* no retries configured, no error registered
    /\ c_retry_attempts = 0
    /\ c_errors = {}
    \* no link of a page is recorded
    /\ s_page_links = {}
    /\ s_fetch_failed = FALSE
    \* get_api_content is not called
    /\ g_pc = "off"
    /\ g_rate_limit_remaining = 0
    /\ g_requests = 0
    /\ g_pauses = 0
    /\ g_result = "none"
    \* no page record is built
    /\ c_links_of = {}
    /\ c_extracted = {}
    /\ c_page_task = {}
    /\ c_written = {}
    \* ModernWebCrawler is not running
    /\ m_pc = "off"
    /\ m_helpers = FALSE
    /\ m_max_depth = 0
    /\ m_max_pages = 0
    /\ m_concurrent_requests = 0
    /\ m_visited_urls = {}
    /\ m_url_queue = <<>>
    /\ m_tasks = <<>>
    /\ m_db = [u \in MUrls |-> NoHash]
    /\ m_fetches = [u \in MUrls |-> 0]
    /\ m_dupLinks = {}

\* main of cli.py: args = parser.parse_args(); load_config(args.config, args).
LCall ==
    /\ f_fn = "load_config" /\ f_pc = "call"
    /\ f_result' = load_config(f_args.file, LParseArgs(f_args.line))
    /\ f_pc' = "returned"
    /\ UNCHANGED <<f_fn, f_args>>

LNext ==
    \/ LCall /\ UNCHANGED notCall

SpecLoadConfig == LInit /\ [][LNext]_vars

\* The section of a setting.
LSectionOf(key) == IF key = "start_urls" THEN "urls" ELSE "crawl"

\* The value of a setting in the YAML file, or else in DEFAULT_CONFIG.
LFileValue(file_config, key) ==
    IF LSectionOf(key) \in DOMAIN file_config /\ key \in DOMAIN file_config[LSectionOf(key)]
    THEN file_config[LSectionOf(key)][key]
    ELSE DEFAULT_CONFIG[LSectionOf(key)][key]

\* C38: for every option that is left out on the command line the returned
\* configuration keeps the value of the YAML file, or else of DEFAULT_CONFIG.
C38_OmittedOptionsKeepFileValue ==
    (f_fn = "load_config" /\ f_pc = "returned") =>
        \A key \in {"max_depth", "respect_robots", "start_urls"} :
            f_args.line[key] = LOmitted =>
                f_result[LSectionOf(key)][key] = LFileValue(f_args.file, key)

====
